---- MODULE Spec2Model ----
(***************************************************************************)
(* A model of hjson-go: the ordered map, the Hjson parser, the encoder's   *)
(* string quoting and the encoder's circular reference guard.              *)
(*                                                                         *)
(* Text is a sequence of byte values (Go []byte / string).  Go indices are *)
(* 0-based, TLA+ sequences 1-based: data[i] in Go is data[i+1] here.       *)
(***************************************************************************)
EXTENDS Integers, Sequences, FiniteSets, TLC

VARIABLES
    om,      \* the OrderedMap under test: [Keys |-> sequence, Map |-> function]
    last,    \* the last OrderedMap call: its arguments, the map before it, its result
    input,   \* what a run starts from: a string, a document tree or a host value graph
    doc,     \* the Hjson text given to Unmarshal
    mode,    \* the destination and the options of the run
    phase,   \* how far the run has come
    r1,      \* the result of the first Unmarshal
    enc,     \* the result of Marshal
    r2       \* the result of the second Unmarshal

vars == <<om, last, input, doc, mode, phase, r1, enc, r2>>
omVars == <<om, last>>
runVars == <<input, doc, mode, phase, r1, enc, r2>>

-----------------------------------------------------------------------------
(* Generic helpers *)

Range(s) == {s[i] : i \in 1..Len(s)}

NoDup(s) == \A i, j \in 1..Len(s) : s[i] = s[j] => i = j

-----------------------------------------------------------------------------
(* orderedmap.go *)

\* The keys and values the ordered map operations are exercised with.
OMKeys == {"a", "b", "c"}
OMVals == {1, 2}
\* Longest argument slice given to NewOrderedMapFromSlice.
MaxSlice == 2

NoValue == 0

\* map[key] = value on a Go map.
MapSet(m, key, value) ==
    [k \in (DOMAIN m) \cup {key} |-> IF k = key THEN value ELSE m[k]]

\* delete(map, key) on a Go map.
MapDelete(m, key) == [k \in (DOMAIN m) \ {key} |-> m[k]]

EmptyMap == [k \in {} |-> NoValue]

NewOrderedMap == [Keys |-> <<>>, Map |-> EmptyMap]

OMLen(c) == Len(c.Keys)

\* Insert with the length test dropped: the key is always spliced in.
InsertNoLenTest(c, index, key, value) ==
    LET m == MapSet(c.Map, key, value) IN
    IF index = Len(c.Keys)
    THEN [om |-> [Keys |-> Append(c.Keys, key), Map |-> m], found |-> FALSE]
    ELSE LET grown == SubSeq(c.Keys, 1, index + 1) \o SubSeq(c.Keys, index + 1, Len(c.Keys))
         IN [om |-> [Keys |-> [grown EXCEPT ![index + 1] = key], Map |-> m], found |-> FALSE]

\* Insert that appends a new key instead of placing it at the index.
InsertAtEnd(c, index, key, value) ==
    LET m == MapSet(c.Map, key, value) IN
    IF Cardinality(DOMAIN m) = Len(c.Keys)
    THEN [om |-> [Keys |-> c.Keys, Map |-> m], found |-> TRUE]
    ELSE [om |-> [Keys |-> Append(c.Keys, key), Map |-> m], found |-> FALSE]

\* OrderedMap.Insert, for 0 <= index <= Len().
Insert(c, index, key, value) ==
    LET m == MapSet(c.Map, key, value) IN
    IF Cardinality(DOMAIN m) = Len(c.Keys)
    THEN [om |-> [Keys |-> c.Keys, Map |-> m], found |-> TRUE]
    ELSE IF index = Len(c.Keys)
    THEN [om |-> [Keys |-> Append(c.Keys, key), Map |-> m], found |-> FALSE]
    ELSE LET grown == SubSeq(c.Keys, 1, index + 1) \o SubSeq(c.Keys, index + 1, Len(c.Keys))
         IN [om |-> [Keys |-> [grown EXCEPT ![index + 1] = key], Map |-> m], found |-> FALSE]

\* Set that puts a new key in front of the others.
SetInFront(c, key, value) == Insert(c, 0, key, value)

\* Set that leaves the value of a key that is already there.
SetKeepingValue(c, key, value) ==
    IF key \in DOMAIN c.Map THEN [om |-> c, found |-> TRUE]
    ELSE Insert(c, Len(c.Keys), key, value)

\* OrderedMap.Set
Set(c, key, value) == Insert(c, Len(c.Keys), key, value)

\* DeleteIndex that takes the key out of Keys and leaves it in Map.
DeleteIndexKeysOnly(c, index) ==
    [Keys |-> SubSeq(c.Keys, 1, index) \o SubSeq(c.Keys, index + 2, Len(c.Keys)),
     Map  |-> c.Map]

\* OrderedMap.DeleteIndex, for 0 <= index < Len().
DeleteIndex(c, index) ==
    [Keys |-> SubSeq(c.Keys, 1, index) \o SubSeq(c.Keys, index + 2, Len(c.Keys)),
     Map  |-> MapDelete(c.Map, c.Keys[index + 1])]

\* OrderedMap.DeleteKey: the first position holding the key, then DeleteIndex.
DeleteKey(c, key) ==
    IF \E i \in 1..Len(c.Keys) : c.Keys[i] = key
    THEN LET i == CHOOSE i \in 1..Len(c.Keys) :
                     c.Keys[i] = key /\ \A j \in 1..(i - 1) : c.Keys[j] # key
         IN [om |-> DeleteIndex(c, i - 1), found |-> TRUE]
    ELSE [om |-> c, found |-> FALSE]

RECURSIVE SetAll(_, _)
SetAll(c, args) ==
    IF args = <<>> THEN c
    ELSE SetAll(Set(c, args[1].Key, args[1].Value).om, Tail(args))

\* NewOrderedMapFromSlice
NewOrderedMapFromSlice(args) == SetAll(NewOrderedMap, args)

KeyValue == [Key : OMKeys, Value : OMVals]

SlicesUpTo(n) == UNION {[1..m -> KeyValue] : m \in 0..n}

NoCall == [op |-> "none", index |-> 0, key |-> "", value |-> NoValue,
           old |-> NewOrderedMap, found |-> FALSE]

Idle == [k |-> "idle"]

RunIdle ==
    /\ input = Idle /\ doc = <<>> /\ mode = Idle /\ phase = "idle"
    /\ r1 = Idle /\ enc = Idle /\ r2 = Idle

OMInit ==
    /\ om = NewOrderedMap
    /\ last = NoCall
    /\ RunIdle

OMNew ==
    \E args \in SlicesUpTo(MaxSlice) :
        /\ om' = NewOrderedMapFromSlice(args)
        /\ last' = [NoCall EXCEPT !.op = "New"]

OMInsert ==
    \E i \in 0..OMLen(om), k \in OMKeys, v \in OMVals :
        LET r == Insert(om, i, k, v) IN
        /\ om' = r.om
        /\ last' = [op |-> "Insert", index |-> i, key |-> k, value |-> v,
                    old |-> om, found |-> r.found]

OMSet ==
    \E k \in OMKeys, v \in OMVals :
        LET r == Set(om, k, v) IN
        /\ om' = r.om
        /\ last' = [op |-> "Set", index |-> OMLen(om), key |-> k, value |-> v,
                    old |-> om, found |-> r.found]

OMDeleteIndex ==
    \E i \in 0..(OMLen(om) - 1) :
        /\ om' = DeleteIndex(om, i)
        /\ last' = [op |-> "DeleteIndex", index |-> i, key |-> om.Keys[i + 1],
                    value |-> NoValue, old |-> om, found |-> TRUE]

OMDeleteKey ==
    \E k \in OMKeys :
        LET r == DeleteKey(om, k) IN
        /\ om' = r.om
        /\ last' = [op |-> "DeleteKey", index |-> 0, key |-> k, value |-> NoValue,
                    old |-> om, found |-> r.found]

OMNext == (OMNew \/ OMInsert \/ OMSet \/ OMDeleteIndex \/ OMDeleteKey) /\ UNCHANGED runVars

SpecOM == OMInit /\ [][OMNext]_vars

-----------------------------------------------------------------------------
(* Bytes.  The model's texts are ASCII: the rune classes of the encoder's   *)
(* regular expressions are taken with their ASCII members.                  *)

B == [tab |-> 9, lf |-> 10, cr |-> 13, sp |-> 32, dq |-> 34, hash |-> 35,
      sq |-> 39, star |-> 42, plus |-> 43, comma |-> 44, minus |-> 45,
      dot |-> 46, slash |-> 47, d0 |-> 48, d1 |-> 49, d2 |-> 50, d3 |-> 51,
      d4 |-> 52, d5 |-> 53, d9 |-> 57, colon |-> 58,
      uA |-> 65, uE |-> 69, uF |-> 70,
      lbrack |-> 91, bslash |-> 92, rbrack |-> 93,
      a |-> 97, b |-> 98, c |-> 99, e |-> 101, f |-> 102, l |-> 108, n |-> 110,
      r |-> 114, s |-> 115, t |-> 116, u |-> 117, x |-> 120,
      lbrace |-> 123, rbrace |-> 125, del |-> 127]

TxtTrue  == <<B.t, B.r, B.u, B.e>>
TxtFalse == <<B.f, B.a, B.l, B.s, B.e>>
TxtNull  == <<B.n, B.u, B.l, B.l>>

IsDigit(c) == c >= B.d0 /\ c <= B.d9

\* \s of Go's regexp: [\t\n\f\r ]
IsReSpace(c) == c \in {9, 10, 12, 13, 32}

\* unicode.IsSpace on an ASCII byte, as strings.TrimSpace uses it.
IsGoSpace(c) == c \in {9, 10, 11, 12, 13, 32}

HasPrefix(s, pre) == Len(s) >= Len(pre) /\ SubSeq(s, 1, Len(pre)) = pre

Contains(s, sub) ==
    \E i \in 1..(Len(s) - Len(sub) + 1) : SubSeq(s, i, i + Len(sub) - 1) = sub

RECURSIVE TrimLeft(_)
TrimLeft(s) == IF s # <<>> /\ IsGoSpace(s[1]) THEN TrimLeft(Tail(s)) ELSE s

RECURSIVE TrimRight(_)
TrimRight(s) ==
    IF s # <<>> /\ IsGoSpace(s[Len(s)]) THEN TrimRight(SubSeq(s, 1, Len(s) - 1)) ELSE s

\* strings.TrimSpace
TrimSpace(s) == TrimRight(TrimLeft(s))

\* s < t for Go strings (bytewise).
RECURSIVE StrLess(_, _)
StrLess(s, t) ==
    IF t = <<>> THEN FALSE
    ELSE IF s = <<>> THEN TRUE
    ELSE IF s[1] # t[1] THEN s[1] < t[1]
    ELSE StrLess(Tail(s), Tail(t))

-----------------------------------------------------------------------------
(* Values.  Every value is a record of the same shape:                      *)
(*   k  the kind: "null", "true", "false", "num", "str", "arr", "obj" (an    *)
(*      OrderedMap), "map" (a Go map), "struct"                              *)
(*   s  the bytes of a string; for a number its text (json.Number) or, once  *)
(*      converted to float64, <<sign, exponent, digit, ..., digit>>          *)
(*   a  the elements of an array, or the members' values of an object        *)
(*   ks the keys of an object, in the order of OrderedMap.Keys (for a Go     *)
(*      map, which has no order: sorted)                                     *)

Val(k, s, a, ks) == [k |-> k, s |-> s, a |-> a, ks |-> ks]
VNull    == Val("null", <<>>, <<>>, <<>>)
VBool(b) == Val(IF b THEN "true" ELSE "false", <<>>, <<>>, <<>>)
VStr(s)  == Val("str", s, <<>>, <<>>)
VNum(s)  == Val("num", s, <<>>, <<>>)
VArr(a)  == Val("arr", <<>>, a, <<>>)
VObj(ks, a) == Val("obj", <<>>, a, ks)
VStruct(ks, a) == Val("struct", <<>>, a, ks)

IndexOf(seq, x) == CHOOSE i \in 1..Len(seq) : seq[i] = x

\* An object value as an OrderedMap, and back.
AsOM(v) == [Keys |-> v.ks, Map |-> [k \in Range(v.ks) |-> v.a[IndexOf(v.ks, k)]]]
FromOM(c) == VObj(c.Keys, [i \in 1..Len(c.Keys) |-> c.Map[c.Keys[i]]])

-----------------------------------------------------------------------------
(* decode.go: the cursor.  A cursor is [at, ch]: hjsonParser.at and .ch;    *)
(* the buffer hjsonParser.data is the parameter d.                          *)

\* hjsonParser.resetAt
ResetAt == [at |-> 0, ch |-> B.sp]

\* hjsonParser.next; the returned bool is NextOk.
Next(d, c) ==
    IF c.at < Len(d) THEN [at |-> c.at + 1, ch |-> d[c.at + 1]]
    ELSE [at |-> c.at, ch |-> 0]

NextOk(d, c) == c.at < Len(d)

\* hjsonParser.peek
Peek(d, c, offs) ==
    LET pos == c.at + offs IN
    IF pos >= 0 /\ pos < Len(d) THEN d[pos + 1] ELSE 0

\* isPunctuatorChar
IsPunctuatorChar(c) ==
    c \in {B.lbrace, B.rbrace, B.lbrack, B.rbrack, B.comma, B.colon}

\* A result of a read: ok, the value read, the cursor after it, the error message.
Ok(v, c) == [ok |-> TRUE, v |-> v, c |-> c, msg |-> ""]
Err(msg, c) == [ok |-> FALSE, v |-> VNull, c |-> c, msg |-> msg]

\* escapee
Escapee ==
    [x \in {B.dq, B.sq, B.bslash, B.slash, B.b, B.f, B.n, B.r, B.t} |->
        CASE x = B.b -> 8
          [] x = B.f -> 12
          [] x = B.n -> 10
          [] x = B.r -> 13
          [] x = B.t -> 9
          [] OTHER -> x]

\* bytes.Buffer.WriteRune: the UTF-8 encoding of a code point below 0x10000.
WriteRune(r) ==
    IF r < 128 THEN <<r>>
    ELSE IF r < 2048 THEN <<192 + (r \div 64), 128 + (r % 64)>>
    ELSE IF r >= 55296 /\ r <= 57343 THEN <<239, 191, 189>>
    ELSE <<224 + (r \div 4096), 128 + ((r \div 64) % 64), 128 + (r % 64)>>

\* The value of a hex digit in readString, -1 for any other byte.
HexVal(ch) ==
    IF ch >= B.d0 /\ ch <= B.d9 THEN ch - B.d0
    ELSE IF ch >= B.a /\ ch <= B.f THEN ch - B.a + 10
    ELSE IF ch >= B.uA /\ ch <= B.uF THEN ch - B.uA + 10
    ELSE -1

\* The four hex digits after \u: i digits read so far, uffff their value.
RECURSIVE ReadHex4(_, _, _, _)
ReadHex4(d, c, i, uffff) ==
    IF i = 4 THEN Ok(VStr(WriteRune(uffff)), c)
    ELSE LET c1 == Next(d, c) IN
         IF HexVal(c1.ch) < 0 THEN Err("Bad \\u char", c1)
         ELSE ReadHex4(d, c1, i + 1, uffff * 16 + HexVal(c1.ch))

\* hjsonParser.white: the three inner loops, then the outer loop.
RECURSIVE SkipSpace(_, _)
SkipSpace(d, c) == IF c.ch > 0 /\ c.ch <= B.sp THEN SkipSpace(d, Next(d, c)) ELSE c

RECURSIVE SkipLine(_, _)
SkipLine(d, c) == IF c.ch > 0 /\ c.ch # B.lf THEN SkipLine(d, Next(d, c)) ELSE c

RECURSIVE SkipBlock(_, _)
SkipBlock(d, c) ==
    IF c.ch > 0 /\ ~(c.ch = B.star /\ Peek(d, c, 0) = B.slash)
    THEN SkipBlock(d, Next(d, c)) ELSE c

RECURSIVE White(_, _)
White(d, c) ==
    IF c.ch > 0
    THEN LET c1 == SkipSpace(d, c) IN
         IF c1.ch = B.hash \/ (c1.ch = B.slash /\ Peek(d, c1, 0) = B.slash)
         THEN White(d, SkipLine(d, c1))
         ELSE IF c1.ch = B.slash /\ Peek(d, c1, 0) = B.star
         THEN LET c2 == SkipBlock(d, Next(d, Next(d, c1))) IN
              White(d, IF c2.ch > 0 THEN Next(d, Next(d, c2)) ELSE c2)
         ELSE c1
    ELSE c

\* readMLString: the indentation of the line that holds the opening quotes.
RECURSIVE MLIndent(_, _, _)
MLIndent(d, c, indent) ==
    LET ch == Peek(d, c, 0 - indent - 5) IN
    IF ch = 0 \/ ch = B.lf THEN indent ELSE MLIndent(d, c, indent + 1)

\* skipIndent that skips all the white space a line starts with.
RECURSIVE SkipIndentAll(_, _, _)
SkipIndentAll(d, c, skip) ==
    IF c.ch > 0 /\ c.ch <= B.sp /\ c.ch # B.lf
    THEN SkipIndentAll(d, Next(d, c), skip) ELSE c

\* readMLString: skipIndent
RECURSIVE SkipIndent(_, _, _)
SkipIndent(d, c, skip) ==
    IF c.ch > 0 /\ c.ch <= B.sp /\ c.ch # B.lf /\ skip > 0
    THEN SkipIndent(d, Next(d, c), skip - 1) ELSE c

\* readMLString: skip white/to (newline)
RECURSIVE SkipToNewline(_, _)
SkipToNewline(d, c) ==
    IF c.ch > 0 /\ c.ch <= B.sp /\ c.ch # B.lf THEN SkipToNewline(d, Next(d, c)) ELSE c

Quotes(n) == [i \in 1..n |-> B.sq]

\* readMLString: the main loop.
RECURSIVE MLLoop(_, _, _, _, _, _)
MLLoop(d, c, indent, res, triple, lastLf) ==
    IF c.ch = 0 THEN Err("Bad multiline string", c)
    ELSE IF c.ch = B.sq
    THEN IF triple + 1 = 3
         THEN Ok(VStr(IF lastLf THEN SubSeq(res, 1, Len(res) - 1) ELSE res), Next(d, c))
         ELSE MLLoop(d, Next(d, c), indent, res, triple + 1, lastLf)
    ELSE LET res1 == res \o Quotes(triple)
             lf1 == IF triple > 0 THEN FALSE ELSE lastLf
         IN
         IF c.ch = B.lf
         THEN MLLoop(d, SkipIndent(d, Next(d, c), indent), indent,
                     Append(res1, B.lf), 0, TRUE)
         ELSE IF c.ch # B.cr
         THEN MLLoop(d, Next(d, c), indent, Append(res1, c.ch), 0, FALSE)
         ELSE MLLoop(d, Next(d, c), indent, res1, 0, lf1)

\* hjsonParser.readMLString
ReadMLString(d, c) ==
    LET indent == MLIndent(d, c, 0)
        c1 == SkipToNewline(d, c)
        c2 == IF c1.ch = B.lf THEN SkipIndent(d, Next(d, c1), indent) ELSE c1
    IN MLLoop(d, c2, indent, <<>>, 0, FALSE)

\* hjsonParser.readString: the loop; c is the cursor before p.next().
RECURSIVE StringLoop(_, _, _, _, _)
StringLoop(d, c, exitCh, allowML, res) ==
    IF ~NextOk(d, c) THEN Err("Bad string", Next(d, c))
    ELSE LET c1 == Next(d, c) IN
         IF c1.ch = exitCh
         THEN LET c2 == Next(d, c1) IN
              IF allowML /\ exitCh = B.sq /\ c2.ch = B.sq /\ res = <<>>
              THEN ReadMLString(d, Next(d, c2))
              ELSE Ok(VStr(res), c2)
         ELSE IF c1.ch = B.bslash
         THEN LET c2 == Next(d, c1) IN
              IF c2.ch = B.u
              THEN LET h == ReadHex4(d, c2, 0, 0) IN
                   IF h.ok THEN StringLoop(d, h.c, exitCh, allowML, res \o h.v.s) ELSE h
              ELSE IF c2.ch \in DOMAIN Escapee
              THEN StringLoop(d, c2, exitCh, allowML, Append(res, Escapee[c2.ch]))
              ELSE Err("Bad escape", c2)
         ELSE IF c1.ch = B.lf \/ c1.ch = B.cr
         THEN Err("Bad string containing newline", c1)
         ELSE StringLoop(d, c1, exitCh, allowML, Append(res, c1.ch))

\* hjsonParser.readString
ReadString(d, c, allowML) == StringLoop(d, c, c.ch, allowML, <<>>)

\* readKeyname that refuses white space between the key and the ':' too.
RECURSIVE KeynameLoopNoSpace(_, _, _, _, _)
KeynameLoopNoSpace(d, c, start, name, space) ==
    IF c.ch = B.colon
    THEN IF name = <<>>
         THEN Err("Found ':' but no key name (for an empty key name use quotes)", c)
         ELSE IF space >= 0
         THEN Err("Found whitespace in your key name (use quotes to include)",
                  [c EXCEPT !.at = start + space])
         ELSE Ok(VStr(name), c)
    ELSE IF c.ch <= B.sp
    THEN IF c.ch = 0
         THEN Err("Found EOF while looking for a key name (check your syntax)", c)
         ELSE KeynameLoopNoSpace(d, Next(d, c), start, name,
                                 IF space < 0 THEN Len(name) ELSE space)
    ELSE IF IsPunctuatorChar(c.ch)
    THEN Err("Found a punctuator where a key name was expected", c)
    ELSE KeynameLoopNoSpace(d, Next(d, c), start, Append(name, c.ch), space)

\* hjsonParser.readKeyname: the loop over a bare key.
RECURSIVE KeynameLoop(_, _, _, _, _)
KeynameLoop(d, c, start, name, space) ==
    IF c.ch = B.colon
    THEN IF name = <<>>
         THEN Err("Found ':' but no key name (for an empty key name use quotes)", c)
         ELSE IF space >= 0 /\ space # Len(name)
         THEN Err("Found whitespace in your key name (use quotes to include)",
                  [c EXCEPT !.at = start + space])
         ELSE Ok(VStr(name), c)
    ELSE IF c.ch <= B.sp
    THEN IF c.ch = 0
         THEN Err("Found EOF while looking for a key name (check your syntax)", c)
         ELSE KeynameLoop(d, Next(d, c), start, name,
                          IF space < 0 THEN Len(name) ELSE space)
    ELSE IF IsPunctuatorChar(c.ch)
    THEN Err("Found a punctuator where a key name was expected", c)
    ELSE KeynameLoop(d, Next(d, c), start, Append(name, c.ch), space)

\* hjsonParser.readKeyname
ReadKeyname(d, c) ==
    IF c.ch = B.dq \/ c.ch = B.sq THEN ReadString(d, c, FALSE)
    ELSE KeynameLoop(d, c, c.at, <<>>, -1)

-----------------------------------------------------------------------------
(* Numbers.  tryParseNumber and startsWithNumber are called by decode.go and *)
(* encode.go; their file is not among the sources, so they follow the       *)
(* specification: strict number parsing that must consume the whole text.   *)

RECURSIVE DigitsEnd(_, _)
\* The first position at or after i of t that holds no digit.
DigitsEnd(t, i) == IF i <= Len(t) /\ IsDigit(t[i]) THEN DigitsEnd(t, i + 1) ELSE i

\* The position after an optional minus sign.
NumSign(t) == IF t # <<>> /\ t[1] = B.minus THEN 2 ELSE 1

\* The position after the integer digits that start at i; 0 when there is no
\* digit or a leading zero.
NumInt(t, i) ==
    IF DigitsEnd(t, i) = i \/ (DigitsEnd(t, i) - i > 1 /\ t[i] = B.d0) THEN 0
    ELSE DigitsEnd(t, i)

\* The position after an optional fraction at i; 0 when the dot has no digit.
NumFrac(t, i) ==
    IF i = 0 THEN 0
    ELSE IF i <= Len(t) /\ t[i] = B.dot
    THEN (IF DigitsEnd(t, i + 1) = i + 1 THEN 0 ELSE DigitsEnd(t, i + 1))
    ELSE i

\* The position of the first digit of the exponent whose letter is at i.
NumExpDigits(t, i) ==
    IF i + 1 <= Len(t) /\ (t[i + 1] = B.minus \/ t[i + 1] = B.plus) THEN i + 2 ELSE i + 1

\* The position after an optional exponent at i; 0 when it has no digit.
NumExp(t, i) ==
    IF i = 0 THEN 0
    ELSE IF i <= Len(t) /\ (t[i] = B.e \/ t[i] = B.uE)
    THEN (IF DigitsEnd(t, NumExpDigits(t, i)) = NumExpDigits(t, i) THEN 0
          ELSE DigitsEnd(t, NumExpDigits(t, i)))
    ELSE i

\* The parts of the number at the start of t, from the positions after its
\* integer digits, its fraction and its exponent.
NumberParts(t, i1, i2, i3) ==
    [ok     |-> i3 > 0,
     neg    |-> NumSign(t) = 2,
     int    |-> SubSeq(t, NumSign(t), i1 - 1),
     frac   |-> SubSeq(t, i1 + 1, i2 - 1),
     exp    |-> IF i3 > i2 THEN SubSeq(t, NumExpDigits(t, i2), i3 - 1) ELSE <<>>,
     expNeg |-> i3 > i2 /\ t[i2 + 1] = B.minus,
     end    |-> i3]

\* The number at the start of t: [ok, neg, int, frac, exp, expNeg, end], where
\* int, frac and exp are its digit runs and end is the first position after it.
ScanNumber(t) ==
    NumberParts(t, NumInt(t, NumSign(t)),
                NumFrac(t, NumInt(t, NumSign(t))),
                NumExp(t, NumFrac(t, NumInt(t, NumSign(t)))))

RECURSIVE AllSpace(_)
AllSpace(s) == s = <<>> \/ (s[1] > 0 /\ s[1] <= B.sp /\ AllSpace(Tail(s)))

RECURSIVE SkipSpaceAt(_, _)
SkipSpaceAt(t, i) ==
    IF i <= Len(t) /\ t[i] > 0 /\ t[i] <= B.sp THEN SkipSpaceAt(t, i + 1) ELSE i

\* tryParseNumber(text, false, .): the text is a number and nothing else
\* but white space after it.
NumberThenSpace(t, n) == n.ok /\ AllSpace(SubSeq(t, n.end, Len(t)))

IsNumberText(t) == NumberThenSpace(t, ScanNumber(t))

\* startsWithNumber: a number, then the end of the text or one of the bytes
\* that end a quoteless value.
NumberThenEnd(t, ok, i) ==
    /\ ok
    /\ \/ i > Len(t)
       \/ t[i] \in {B.comma, B.rbrace, B.rbrack, B.hash}
       \/ (t[i] = B.slash /\ i < Len(t) /\ t[i + 1] \in {B.slash, B.star})

StartsWithNumber(t) ==
    NumberThenEnd(t, ScanNumber(t).ok, SkipSpaceAt(t, ScanNumber(t).end))

RECURSIVE DigitsValue(_, _)
DigitsValue(ds, acc) ==
    IF ds = <<>> THEN acc ELSE DigitsValue(Tail(ds), acc * 10 + (ds[1] - B.d0))

RECURSIVE StripLeadingZeros(_)
StripLeadingZeros(ds) ==
    IF ds # <<>> /\ ds[1] = B.d0 THEN StripLeadingZeros(Tail(ds)) ELSE ds

RECURSIVE TrailingZeros(_)
TrailingZeros(ds) ==
    IF ds # <<>> /\ ds[Len(ds)] = B.d0
    THEN 1 + TrailingZeros(SubSeq(ds, 1, Len(ds) - 1)) ELSE 0

\* A float64 as <<sign, exponent, digit, ..., digit>>, its value being
\* 0.digits * 10^exponent; zero is <<0, 0>> or <<1, 0>>.
\*   neg     the sign
\*   point   the number of digits before the decimal point
\*   ds      the digits without leading zeros, lead the number of those zeros
\*   ev      the exponent written in the text
MakeFloat(neg, point, ds, lead, ev) ==
    IF SubSeq(ds, 1, Len(ds) - TrailingZeros(ds)) = <<>>
    THEN <<IF neg THEN 1 ELSE 0, 0>>
    ELSE <<IF neg THEN 1 ELSE 0, ev + point - lead>>
         \o SubSeq(ds, 1, Len(ds) - TrailingZeros(ds))

FloatOf(n) ==
    MakeFloat(n.neg, Len(n.int), StripLeadingZeros(n.int \o n.frac),
              Len(n.int \o n.frac) - Len(StripLeadingZeros(n.int \o n.frac)),
              IF n.expNeg THEN 0 - DigitsValue(n.exp, 0) ELSE DigitsValue(n.exp, 0))

\* strconv.ParseFloat of a number text.  Exact for the numbers of up to 15
\* digits and small exponents the model reads.
ParseFloat(t) == FloatOf(ScanNumber(t))

-----------------------------------------------------------------------------
(* decode.go: values *)

\* The parser's options and destination:
\*   dest         the type of the destination, outermost first: "string",
\*                "slice" or "map" followed by the element type, and <<>> for
\*                interface{} and for no type
\*   jsonNumber   numbers stay json.Number (the result goes through JSON)
\*   strict       duplicate keys are an error
POpt(dest, jsonNumber, strict) ==
    [dest |-> dest, jsonNumber |-> jsonNumber, strict |-> strict]

\* readTfnns: newT.Kind() == reflect.String
DestIsString(opt) == opt.dest # <<>> /\ opt.dest[1] = "string"

\* readArray, readObject: elemType, for kind "slice" or "map".
ElemOpt(opt, kind) ==
    [opt EXCEPT !.dest = IF opt.dest # <<>> /\ opt.dest[1] = kind
                         THEN Tail(opt.dest) ELSE <<>>]

\* readTfnns: what the text read so far is, once a terminator is seen.
\* No hit when it is neither a keyword nor a number.
Sniff(opt, chf, value) ==
    IF DestIsString(opt) THEN [hit |-> FALSE, v |-> VNull]
    ELSE IF chf = B.f /\ TrimSpace(value) = TxtFalse THEN [hit |-> TRUE, v |-> VBool(FALSE)]
    ELSE IF chf = B.n /\ TrimSpace(value) = TxtNull THEN [hit |-> TRUE, v |-> VNull]
    ELSE IF chf = B.t /\ TrimSpace(value) = TxtTrue THEN [hit |-> TRUE, v |-> VBool(TRUE)]
    ELSE IF (chf = B.minus \/ IsDigit(chf)) /\ IsNumberText(value)
    THEN [hit |-> TRUE,
          v |-> VNum(IF opt.jsonNumber THEN SubSeq(value, 1, ScanNumber(value).end - 1)
                     ELSE ParseFloat(value))]
    ELSE [hit |-> FALSE, v |-> VNull]

\* readTfnns that does not take '#' for the end of a value.
IsTerminatorButHash(d, c) ==
    \/ c.ch = B.cr \/ c.ch = B.lf \/ c.ch = 0
    \/ c.ch \in {B.comma, B.rbrace, B.rbrack}
    \/ (c.ch = B.slash /\ Peek(d, c, 0) \in {B.slash, B.star})

\* readTfnns: a terminator of a quoteless value at c.
IsTerminator(d, c) ==
    \/ c.ch = B.cr \/ c.ch = B.lf \/ c.ch = 0
    \/ c.ch \in {B.comma, B.rbrace, B.rbrack, B.hash}
    \/ (c.ch = B.slash /\ Peek(d, c, 0) \in {B.slash, B.star})

RECURSIVE TfnnsLoop(_, _, _, _, _)

\* readTfnns: one round of the loop, c being the cursor after p.next() and sn
\* what the text read so far is.
TfnnsAt(d, c, opt, chf, value, sn) ==
    IF IsTerminator(d, c) /\ sn.hit THEN Ok(sn.v, c)
    ELSE IF c.ch = B.cr \/ c.ch = B.lf \/ c.ch = 0 THEN Ok(VStr(TrimSpace(value)), c)
    ELSE TfnnsLoop(d, c, opt, chf, Append(value, c.ch))

\* hjsonParser.readTfnns: the loop; c is the cursor before p.next().
TfnnsLoop(d, c, opt, chf, value) ==
    TfnnsAt(d, Next(d, c), opt, chf, value, Sniff(opt, chf, value))

\* hjsonParser.readTfnns
ReadTfnns(d, c, opt) ==
    IF IsPunctuatorChar(c.ch)
    THEN Err("Found a punctuator character when expecting a quoteless string (check your syntax)", c)
    ELSE TfnnsLoop(d, c, opt, c.ch, <<c.ch>>)

\* A member is stored whatever the options say.
AddMemberAlways(opt, object, key, val) ==
    [ok |-> TRUE, om |-> Set(object, key, val).om]

\* readObject stores a member: object.Append(key, val).  OrderedMap.Set is the
\* method of that contract among the sources; the strict option is the
\* specification's rejection of a repeated key.
AddMember(opt, object, key, val) ==
    IF opt.strict /\ key \in DOMAIN object.Map
    THEN [ok |-> FALSE, om |-> object]
    ELSE [ok |-> TRUE, om |-> Set(object, key, val).om]

RECURSIVE ReadValue(_, _, _)
RECURSIVE ArrayLoop(_, _, _, _)
RECURSIVE ObjectLoop(_, _, _, _, _)

\* readArray: after an element and the white space behind it, at c.
ArrayAfter(d, c, opt, array) ==
    IF c.ch = B.rbrack THEN Ok(VArr(array), Next(d, c))
    ELSE ArrayLoop(d, White(d, c), opt, array)

\* readArray: the element r has been read.
ArrayElement(d, r, opt, array) ==
    IF ~r.ok THEN r
    ELSE IF White(d, r.c).ch = B.comma
    THEN ArrayAfter(d, White(d, Next(d, White(d, r.c))), opt, Append(array, r.v))
    ELSE ArrayAfter(d, White(d, r.c), opt, Append(array, r.v))

\* hjsonParser.readArray: the loop over the elements.
ArrayLoop(d, c, opt, array) ==
    IF c.ch > 0
    THEN ArrayElement(d, ReadValue(d, c, ElemOpt(opt, "slice")), opt, array)
    ELSE Err("End of input while parsing an array (did you forget a closing ']'?)", c)

\* hjsonParser.readArray
ReadArray(d, c, opt) ==
    IF White(d, Next(d, c)).ch = B.rbrack
    THEN Ok(VArr(<<>>), Next(d, White(d, Next(d, c))))
    ELSE ArrayLoop(d, White(d, Next(d, c)), opt, <<>>)

\* readObject: after a member and the white space behind it, at c.
ObjectAfter(d, c, opt, withoutBraces, object) ==
    IF c.ch = B.rbrace /\ ~withoutBraces THEN Ok(FromOM(object), Next(d, c))
    ELSE ObjectLoop(d, White(d, c), opt, withoutBraces, object)

\* readObject: the member has been stored (m), the cursor is c behind its value.
ObjectStored(d, c, opt, withoutBraces, m) ==
    IF ~m.ok THEN Err("Found duplicate values for key", c)
    ELSE IF White(d, c).ch = B.comma
    THEN ObjectAfter(d, White(d, Next(d, White(d, c))), opt, withoutBraces, m.om)
    ELSE ObjectAfter(d, White(d, c), opt, withoutBraces, m.om)

\* readObject: the value r of the member key has been read.
ObjectMember(d, r, opt, withoutBraces, object, key) ==
    IF ~r.ok THEN r
    ELSE ObjectStored(d, r.c, opt, withoutBraces, AddMember(opt, object, key, r.v))

\* readObject: the key k has been read.
ObjectKey(d, k, opt, withoutBraces, object) ==
    IF ~k.ok THEN k
    ELSE IF White(d, k.c).ch # B.colon THEN Err("Expected ':'", White(d, k.c))
    ELSE ObjectMember(d, ReadValue(d, Next(d, White(d, k.c)), ElemOpt(opt, "map")),
                      opt, withoutBraces, object, k.v.s)

\* hjsonParser.readObject: the loop over the members.
ObjectLoop(d, c, opt, withoutBraces, object) ==
    IF c.ch > 0 THEN ObjectKey(d, ReadKeyname(d, c), opt, withoutBraces, object)
    ELSE IF withoutBraces THEN Ok(FromOM(object), c)
    ELSE Err("End of input while parsing an object (did you forget a closing '}'?)", c)

\* readObject: c is the cursor after the white space that follows the brace.
ObjectStart(d, c, opt, withoutBraces) ==
    IF c.ch = B.rbrace /\ ~withoutBraces THEN Ok(FromOM(NewOrderedMap), Next(d, c))
    ELSE ObjectLoop(d, c, opt, withoutBraces, NewOrderedMap)

\* hjsonParser.readObject
ReadObject(d, c, opt, withoutBraces) ==
    ObjectStart(d, White(d, IF withoutBraces THEN c ELSE Next(d, c)), opt, withoutBraces)

\* readValue: c is the cursor after p.white().
ValueAt(d, c, opt) ==
    IF c.ch = B.lbrace THEN ReadObject(d, c, opt, FALSE)
    ELSE IF c.ch = B.lbrack THEN ReadArray(d, c, opt)
    ELSE IF c.ch = B.dq \/ c.ch = B.sq THEN ReadString(d, c, TRUE)
    ELSE ReadTfnns(d, c, opt)

\* hjsonParser.readValue
ReadValue(d, c, opt) == ValueAt(d, White(d, c), opt)

\* hjsonParser.checkTrailing
CheckTrailing(d, r) ==
    IF ~r.ok THEN r
    ELSE LET c1 == White(d, r.c) IN
         IF c1.ch > 0 THEN Err("Syntax error, found trailing characters", c1)
         ELSE Ok(r.v, c1)

\* rootValue that returns what the attempt to read a single value returned.
RootSingleSecondError(res, res2) == res2

\* rootValue: the document is not a root object without braces (res is the
\* failure of that attempt); it may be a single value.
RootSingle(res, res2) == IF res2.ok THEN res2 ELSE res

\* rootValue: c is the cursor after p.white().
RootAt(d, c, opt, res) ==
    IF c.ch = B.lbrace THEN CheckTrailing(d, ReadObject(d, c, opt, FALSE))
    ELSE IF c.ch = B.lbrack THEN CheckTrailing(d, ReadArray(d, c, opt))
    ELSE IF res.ok THEN res
    ELSE RootSingle(res, CheckTrailing(d, ReadValue(d, ResetAt, opt)))

\* hjsonParser.rootValue
RootValue(d, opt) ==
    RootAt(d, White(d, ResetAt), opt,
           CheckTrailing(d, ReadObject(d, White(d, ResetAt), opt, TRUE)))

-----------------------------------------------------------------------------
(* encode.go: the texts the encoder tests and writes.  The model's strings   *)
(* are ASCII, so of commonRange only \x7f can occur.                         *)

\* DefaultOptions
DefaultOptions ==
    [Eol |-> <<B.lf>>, BracesSameLine |-> FALSE, EmitRootBraces |-> TRUE,
     QuoteAlways |-> FALSE, QuoteAmbiguousStrings |-> TRUE,
     IndentBy |-> <<B.sp, B.sp>>, BaseIndentation |-> <<>>]

IsControl(c) == c < B.sp
IsCommonRange(c) == c = B.del

\* needsEscape.MatchString
NeedsEscape(s) ==
    \E i \in 1..Len(s) :
        s[i] = B.bslash \/ s[i] = B.dq \/ IsControl(s[i]) \/ IsCommonRange(s[i])

\* needsQuotes.MatchString
NeedsQuotes(s) ==
    \/ s # <<>> /\ \/ IsReSpace(s[1])
                   \/ s[1] \in {B.dq, B.sq, B.hash, B.lbrace, B.rbrace,
                                B.lbrack, B.rbrack, B.colon, B.comma}
                   \/ HasPrefix(s, <<B.slash, B.star>>)
                   \/ HasPrefix(s, <<B.slash, B.slash>>)
                   \/ IsReSpace(s[Len(s)])
    \/ \E i \in 1..Len(s) : IsControl(s[i]) \/ IsCommonRange(s[i])

\* needsEscapeML.MatchString
NeedsEscapeML(s) ==
    \/ Contains(s, <<B.sq, B.sq, B.sq>>)
    \/ s # <<>> /\ \A i \in 1..Len(s) : IsReSpace(s[i])
    \/ \E i \in 1..Len(s) :
          \/ IsControl(s[i]) /\ s[i] # B.tab /\ s[i] # B.lf
          \/ IsCommonRange(s[i])

RECURSIVE SkipReSpace(_, _)
SkipReSpace(s, i) == IF i <= Len(s) /\ IsReSpace(s[i]) THEN SkipReSpace(s, i + 1) ELSE i

\* startsWithKeyword.MatchString
StartsWithKeyword(s) ==
    \E kw \in {TxtTrue, TxtFalse, TxtNull} :
        /\ HasPrefix(s, kw)
        /\ LET i == SkipReSpace(s, Len(kw) + 1) IN
           \/ i > Len(s)
           \/ /\ \/ s[i] \in {B.comma, B.rbrack, B.rbrace, B.hash}
                 \/ (s[i] = B.slash /\ i < Len(s) /\ s[i + 1] \in {B.slash, B.star})
              /\ \A j \in (i + 1)..Len(s) : s[j] # B.lf

\* needsEscapeName.MatchString
NeedsEscapeName(s) ==
    \/ \E i \in 1..Len(s) :
          \/ s[i] \in {B.comma, B.lbrace, B.lbrack, B.rbrace, B.rbrack,
                       B.colon, B.hash, B.dq, B.sq}
          \/ IsReSpace(s[i])
    \/ Contains(s, <<B.slash, B.slash>>)
    \/ Contains(s, <<B.slash, B.star>>)

\* A hex digit of fmt.Sprintf("%04x")
HexDigit(v) == IF v < 10 THEN B.d0 + v ELSE B.a + (v - 10)

\* meta, and the \u escape of quoteReplace for a byte outside it.
Meta(c) ==
    CASE c = 8 -> <<B.bslash, B.b>>
      [] c = B.tab -> <<B.bslash, B.t>>
      [] c = B.lf -> <<B.bslash, B.n>>
      [] c = 12 -> <<B.bslash, B.f>>
      [] c = B.cr -> <<B.bslash, B.r>>
      [] c = B.dq -> <<B.bslash, B.dq>>
      [] c = B.bslash -> <<B.bslash, B.bslash>>
      [] OTHER -> <<B.bslash, B.u, B.d0, B.d0, HexDigit(c \div 16), HexDigit(c % 16)>>

\* hjsonEncoder.quoteReplace
RECURSIVE QuoteReplace(_)
QuoteReplace(text) ==
    IF text = <<>> THEN <<>>
    ELSE (IF NeedsEscape(<<text[1]>>) THEN Meta(text[1]) ELSE <<text[1]>>)
         \o QuoteReplace(Tail(text))

\* strings.Repeat
RECURSIVE Repeat(_, _)
Repeat(s, n) == IF n <= 0 THEN <<>> ELSE s \o Repeat(s, n - 1)

\* hjsonEncoder.writeIndent
WriteIndent(indent) ==
    DefaultOptions.Eol \o DefaultOptions.BaseIndentation
        \o Repeat(DefaultOptions.IndentBy, indent)

\* strings.Split(value, "\n")
RECURSIVE Split(_, _)
Split(s, cur) ==
    IF s = <<>> THEN <<cur>>
    ELSE IF s[1] = B.lf THEN <<cur>> \o Split(Tail(s), <<>>)
    ELSE Split(Tail(s), Append(cur, s[1]))

TripleQuote == <<B.sq, B.sq, B.sq>>

\* mlString: the lines, each after its indentation.
RECURSIVE MLLines(_, _)
MLLines(a, indent) ==
    IF a = <<>> THEN <<>>
    ELSE WriteIndent(IF Len(a[1]) = 0 THEN 0 ELSE indent + 1) \o a[1]
         \o MLLines(Tail(a), indent)

\* hjsonEncoder.mlString
MlString(value, separator, indent) ==
    LET a == Split(value, <<>>) IN
    IF Len(a) = 1 THEN separator \o TripleQuote \o a[1] \o TripleQuote
    ELSE WriteIndent(indent + 1) \o TripleQuote \o MLLines(a, indent)
         \o WriteIndent(indent + 1) \o TripleQuote

\* quote without its test of isRootObject.
QuoteFormAnywhere(value, isRootObject) ==
    IF Len(value) = 0 THEN "empty"
    ELSE IF NeedsQuotes(value) \/ StartsWithNumber(value) \/ StartsWithKeyword(value)
    THEN IF ~NeedsEscape(value) THEN "quoted"
         ELSE IF ~NeedsEscapeML(value) THEN "multiline"
         ELSE "escaped"
    ELSE "bare"

\* The form quote chooses: "empty", "quoted", "multiline", "escaped", "bare".
QuoteForm(value, isRootObject) ==
    IF Len(value) = 0 THEN "empty"
    ELSE IF \/ DefaultOptions.QuoteAlways
            \/ NeedsQuotes(value)
            \/ DefaultOptions.QuoteAmbiguousStrings
                 /\ (StartsWithNumber(value) \/ StartsWithKeyword(value))
    THEN IF ~NeedsEscape(value) THEN "quoted"
         ELSE IF ~NeedsEscapeML(value) /\ ~isRootObject THEN "multiline"
         ELSE "escaped"
    ELSE "bare"

\* quote: the text of each form.
QuoteAs(form, value, separator, indent) ==
    CASE form = "empty" -> separator \o <<B.dq, B.dq>>
      [] form = "quoted" -> separator \o <<B.dq>> \o value \o <<B.dq>>
      [] form = "multiline" -> MlString(value, separator, indent)
      [] form = "escaped" -> separator \o <<B.dq>> \o QuoteReplace(value) \o <<B.dq>>
      [] OTHER -> separator \o value

\* hjsonEncoder.quote
Quote(value, separator, isRootObject, indent) ==
    QuoteAs(QuoteForm(value, isRootObject), value, separator, indent)

\* quoteName that quotes every name.
QuoteNameAlways(name) ==
    <<B.dq>> \o (IF NeedsEscape(name) THEN QuoteReplace(name) ELSE name) \o <<B.dq>>

\* hjsonEncoder.quoteName
QuoteName(name) ==
    IF Len(name) = 0 THEN <<B.dq, B.dq>>
    ELSE IF NeedsEscapeName(name)
    THEN <<B.dq>> \o (IF NeedsEscape(name) THEN QuoteReplace(name) ELSE name) \o <<B.dq>>
    ELSE name

-----------------------------------------------------------------------------
(* encode.go: values *)

\* strconv.Itoa of a natural number.
RECURSIVE Itoa(_)
Itoa(n) == IF n < 10 THEN <<B.d0 + n>> ELSE Append(Itoa(n \div 10), B.d0 + (n % 10))

\* strconv.FormatFloat(number, 'f', -1, 64) of a float <<sign, e, digits>>.
FormatF(f) ==
    LET e  == f[2]
        ds == SubSeq(f, 3, Len(f))
        k  == Len(ds)
    IN (IF f[1] = 1 THEN <<B.minus>> ELSE <<>>) \o
       (IF e <= 0 THEN <<B.d0, B.dot>> \o Repeat(<<B.d0>>, 0 - e) \o ds
        ELSE IF e >= k THEN ds \o Repeat(<<B.d0>>, e - k)
        ELSE SubSeq(ds, 1, e) \o <<B.dot>> \o SubSeq(ds, e + 1, k))

\* strings.ToLower(strconv.FormatFloat(number, 'E', -1, 64))
FormatE(f) ==
    LET x  == f[2] - 1
        ds == SubSeq(f, 3, Len(f))
        ax == IF x < 0 THEN 0 - x ELSE x
    IN (IF f[1] = 1 THEN <<B.minus>> ELSE <<>>) \o <<ds[1]>> \o
       (IF Len(ds) > 1 THEN <<B.dot>> \o Tail(ds) ELSE <<>>) \o
       <<B.e, IF x < 0 THEN B.minus ELSE B.plus>> \o
       (IF ax < 10 THEN <<B.d0>> ELSE <<>>) \o Itoa(ax)

\* str, case reflect.Float64, with the exponential text taken when it is as
\* long as the fixed-point text.
FormatNumberOnTie(f) ==
    IF Len(f) = 1 THEN TxtNull
    ELSE IF Len(f) = 2 THEN <<B.d0>>
    ELSE IF Len(FormatE(f)) <= Len(FormatF(f)) THEN FormatE(f) ELSE FormatF(f)

\* str, case reflect.Float64.  A float of one entry is not finite:
\* <<0>> is +Inf, <<1>> is -Inf, <<2>> is NaN.
FormatNumber(f) ==
    IF Len(f) = 1 THEN TxtNull
    ELSE IF Len(f) = 2 THEN <<B.d0>>
    ELSE IF Len(FormatE(f)) < Len(FormatF(f)) THEN FormatE(f) ELSE FormatF(f)

\* sort.Sort(sortAlpha(keys)): the keys of a Go map, sorted.
RECURSIVE SortKeys(_)
SortKeys(S) ==
    IF S = {} THEN <<>>
    ELSE LET m == CHOOSE x \in S : \A y \in S \ {x} : StrLess(x, y)
         IN <<m>> \o SortKeys(S \ {m})

\* A Go map[string]interface{}: kind "map", its keys held sorted.
VMap(m) == LET ks == SortKeys(DOMAIN m) IN
           Val("map", <<>>, [i \in 1..Len(ks) |-> m[ks[i]]], ks)

RECURSIVE Str(_, _, _, _, _)
RECURSIVE Elements(_, _)
RECURSIVE Fields(_, _, _)

\* str, case reflect.Slice: the loop over the elements.
Elements(a, indent) ==
    IF a = <<>> THEN <<>>
    ELSE WriteIndent(indent) \o Str(a[1], TRUE, <<>>, FALSE, indent)
         \o Elements(Tail(a), indent)

\* writeFields: the loop over the members.
Fields(ks, a, indent) ==
    IF ks = <<>> THEN <<>>
    ELSE WriteIndent(indent) \o QuoteName(ks[1]) \o <<B.colon>>
         \o Str(a[1], FALSE, <<B.sp>>, FALSE, indent)
         \o Fields(Tail(ks), Tail(a), indent)

\* hjsonEncoder.writeFields
WriteFields(ks, a, noIndent, separator, isRootObject, indent) ==
    IF Len(ks) = 0 THEN separator \o <<B.lbrace, B.rbrace>>
    ELSE LET braces == ~isRootObject \/ DefaultOptions.EmitRootBraces
             indent2 == IF braces THEN indent + 1 ELSE indent
             first == Fields(ks, a, indent2)
         IN (IF braces
             THEN (IF ~noIndent /\ ~DefaultOptions.BracesSameLine
                   THEN WriteIndent(indent) ELSE separator) \o <<B.lbrace>>
             ELSE <<>>)
            \o (IF braces THEN first
                ELSE SubSeq(first, Len(WriteIndent(indent2)) + 1, Len(first)))
            \o (IF braces THEN WriteIndent(indent) \o <<B.rbrace>> ELSE <<>>)

\* str on an OrderedMap: the members in the order of Keys.  encode.go has no
\* branch for it; this is the specification's rule, written with writeFields.
StrOrderedMap(ks, a, noIndent, separator, isRootObject, indent) ==
    WriteFields(ks, a, noIndent, separator, isRootObject, indent)

\* hjsonEncoder.str on a value below an interface: the text it writes.
\* A "struct" is written in the order of its fields, a "map" (a Go map) in
\* sorted order of keys, an "obj" (an OrderedMap) by StrOrderedMap.
Str(v, noIndent, separator, isRootObject, indent) ==
    CASE v.k = "null" -> separator \o TxtNull
      [] v.k = "true" -> separator \o TxtTrue
      [] v.k = "false" -> separator \o TxtFalse
      [] v.k = "num" -> separator \o FormatNumber(v.s)
      [] v.k = "str" -> Quote(v.s, separator, isRootObject, indent)
      [] v.k = "arr" ->
           IF Len(v.a) = 0 THEN separator \o <<B.lbrack, B.rbrack>>
           ELSE (IF ~noIndent /\ ~DefaultOptions.BracesSameLine
                 THEN WriteIndent(indent) ELSE separator)
                \o <<B.lbrack>> \o Elements(v.a, indent + 1)
                \o WriteIndent(indent) \o <<B.rbrack>>
      [] v.k = "map" ->
           LET ks == SortKeys(Range(v.ks)) IN
           WriteFields(ks, [i \in 1..Len(ks) |-> v.a[IndexOf(v.ks, ks[i])]],
                       noIndent, separator, isRootObject, indent)
      [] v.k = "struct" ->
           WriteFields(v.ks, v.a, noIndent, separator, isRootObject, indent)
      [] v.k = "obj" ->
           StrOrderedMap(v.ks, v.a, noIndent, separator, isRootObject, indent)

\* MarshalWithOptions with DefaultOptions: [ok, out, panic].  A nil interface at
\* the root is reflect.ValueOf(nil), the zero Value, of kind Invalid: str
\* passes both kind tests and calls value.Type(), which panics.
Marshal(v) ==
    IF v.k = "null" THEN [ok |-> FALSE, out |-> <<>>, panic |-> TRUE]
    ELSE [ok |-> TRUE, out |-> Str(v, TRUE, DefaultOptions.BaseIndentation, TRUE, 0),
          panic |-> FALSE]

-----------------------------------------------------------------------------
(* decode.go: Unmarshal *)

\* json.Marshal of the parsed value, then json.Decoder.Decode into an
\* interface{}: an object becomes a Go map, which keeps no order of keys, a
\* json.Number becomes a float64.  A string passes unchanged (the parser
\* only builds valid text of the model's ASCII bytes).
RECURSIVE ToInterface(_)
ToInterface(v) ==
    CASE v.k = "obj" ->
           VMap([key \in Range(v.ks) |-> ToInterface(v.a[IndexOf(v.ks, key)])])
      [] v.k = "arr" -> VArr([i \in 1..Len(v.a) |-> ToInterface(v.a[i])])
      [] v.k = "num" -> VNum(ParseFloat(v.s))
      [] OTHER -> v

\* The destinations of the model: v in Unmarshal(data, v) is a pointer to
\*   "iface"   interface{}
\*   "string"  string
\*   "map"     map[string]interface{}
\*   "slice"   []interface{}
\*   "om"      OrderedMap (its fields are no keys of the model's documents)
DestType(dest) ==
    CASE dest = "string" -> <<"string">>
      [] dest = "map" -> <<"map">>
      [] dest = "slice" -> <<"slice">>
      [] OTHER -> <<>>

\* json.Decoder.Decode(v): the kinds of JSON value a destination takes.
DestTakes(dest, k) ==
    CASE dest = "string" -> k \in {"str", "null"}
      [] dest = "map" -> k \in {"obj", "null"}
      [] dest = "slice" -> k \in {"arr", "null"}
      [] OTHER -> TRUE

\* UnmarshalWithOptions, after orderedUnmarshal has returned r.
Store(dest, r) ==
    IF ~r.ok THEN [ok |-> FALSE, v |-> VNull, msg |-> r.msg]
    ELSE IF dest = "om"
    THEN IF r.v.k = "obj" THEN [ok |-> TRUE, v |-> r.v, msg |-> ""]
         ELSE [ok |-> FALSE, v |-> VNull, msg |-> "Cannot unmarshal into hjson.OrderedMap"]
    ELSE IF ~DestTakes(dest, r.v.k)
    THEN [ok |-> FALSE, v |-> VNull, msg |-> "json: cannot unmarshal"]
    ELSE IF r.v.k = "null" /\ dest = "string"
    THEN [ok |-> TRUE, v |-> VStr(<<>>), msg |-> ""]
    ELSE [ok |-> TRUE, v |-> ToInterface(r.v), msg |-> ""]

\* UnmarshalWithOptions: [ok, v, msg]; strict is the option that rejects
\* duplicate keys.
UnmarshalWithOptions(data, dest, strict) ==
    Store(dest, RootValue(data, POpt(DestType(dest), dest # "om", strict)))

\* Unmarshal
Unmarshal(data, dest) == UnmarshalWithOptions(data, dest, FALSE)

-----------------------------------------------------------------------------
(* A string through Marshal and Unmarshal (encode_test.go, marshalUnmarshal): *)
(* at the root, as the field F of a struct, and as the element of a slice.   *)

\* The longest string built from StrAlphabet.
MaxStrLen == 3

StrAlphabet == {B.tab, B.lf, B.cr, B.sp, B.sq, B.dq, B.bslash, B.x, B.colon}

StrSpecial ==
    {TxtTrue, TxtFalse, TxtNull, TxtNull \o <<B.sp, B.hash>>, <<B.d1>>,
     <<B.minus, B.d1>>, <<B.d1, B.dot, B.d0>>, <<B.d1, B.e, B.d1>>,
     <<B.d1, B.sp, B.comma>>, <<B.hash, B.x>>, <<B.slash, B.slash>>,
     <<B.lbrace>>, <<B.lbrack, B.rbrack>>, <<B.x, B.del>>,
     <<B.sq, B.sq, B.sq, B.x, B.lf>>, <<B.x, B.sq, B.sq, B.sq, B.sq>>}

StrInputs ==
    UNION {[1..n -> StrAlphabet] : n \in 0..MaxStrLen} \cup StrSpecial

FieldF == <<B.uF>>

\* The host value that holds s, and the destination it is read back into.
HostOf(ctx, s) ==
    CASE ctx = "root" -> VStr(s)
      [] ctx = "member" -> VStruct(<<FieldF>>, <<VStr(s)>>)
      [] ctx = "element" -> VArr(<<VStr(s)>>)

DestOf(ctx) ==
    CASE ctx = "root" -> "string"
      [] ctx = "member" -> "map"
      [] ctx = "element" -> "slice"

\* The string found in the place where s was put, or none.
StringIn(ctx, r) ==
    IF ~r.ok THEN [found |-> FALSE, s |-> <<>>]
    ELSE IF ctx = "root" /\ r.v.k = "str" THEN [found |-> TRUE, s |-> r.v.s]
    ELSE IF ctx = "member" /\ r.v.k = "map" /\ r.v.ks = <<FieldF>> /\ r.v.a[1].k = "str"
    THEN [found |-> TRUE, s |-> r.v.a[1].s]
    ELSE IF ctx = "element" /\ r.v.k = "arr" /\ Len(r.v.a) = 1 /\ r.v.a[1].k = "str"
    THEN [found |-> TRUE, s |-> r.v.a[1].s]
    ELSE [found |-> FALSE, s |-> <<>>]

StrInit ==
    /\ om = NewOrderedMap /\ last = NoCall
    /\ input \in StrInputs
    /\ mode \in {"root", "member", "element"}
    /\ phase = "start"
    /\ doc = <<>> /\ r1 = Idle /\ enc = Idle /\ r2 = Idle

\* buf, err := Marshal(input) or Marshal(obj)
StrMarshal ==
    /\ phase = "start"
    /\ enc' = Marshal(HostOf(mode, input))
    /\ doc' = enc'.out
    /\ phase' = "encoded"
    /\ UNCHANGED <<om, last, input, mode, r1, r2>>

\* err = Unmarshal(buf, &result)
StrUnmarshal ==
    /\ phase = "encoded"
    /\ enc.ok
    /\ r1' = Unmarshal(doc, DestOf(mode))
    /\ phase' = "decoded"
    /\ UNCHANGED <<om, last, input, mode, doc, enc, r2>>

StrNext == StrMarshal \/ StrUnmarshal

SpecStr == StrInit /\ [][StrNext]_vars

-----------------------------------------------------------------------------
(* Documents.  A document is written from a tree: a value whose numbers are  *)
(* their text and whose objects list their members as written, a key         *)
(* possibly more than once.  The writer below is not the encoder: it is the  *)
(* author of the test documents (hjson_test.go, node_test.go).               *)

\* The most members of a generated object.
MaxMembers == 3

DocKeys == {<<B.b>>, <<B.a>>}

DocNumbers == {VNum(<<B.d1>>), VNum(<<B.d2>>)}

\* Strings a document may hold without quotes.
DocBareStrings == {<<B.x>>, <<B.x, B.sp, B.x>>}

\* Scalars that the writer and the encoder write alike.
DocCanonical ==
    DocNumbers \cup {VNull, VBool(TRUE), VBool(FALSE), VStr(TxtTrue)}
        \cup {VStr(s) : s \in DocBareStrings}

DocScalars ==
    DocCanonical \cup {VNum(<<B.d1, B.dot, B.d0>>), VStr(<<B.tab, B.x>>),
                       VStr(<<B.x, B.colon>>), VStr(<<>>)}

\* The objects of at most n members with keys in K and values in V.
ObjectsOf(K, V, n) ==
    UNION {{VObj(ks, a) : ks \in [1..m -> K], a \in [1..m -> V]} : m \in 0..n}

\* a: 1, a: 2, b: 3, c: 4, b: 5
DuplicateExample ==
    VObj(<<<<B.a>>, <<B.a>>, <<B.b>>, <<B.c>>, <<B.b>>>>,
         <<VNum(<<B.d1>>), VNum(<<B.d2>>), VNum(<<B.d3>>), VNum(<<B.d4>>),
           VNum(<<B.d5>>)>>)

\* What a container of the generated documents may hold.
DocInner == DocScalars \cup ObjectsOf(DocKeys, DocNumbers, MaxMembers - 1)

DocTrees ==
    DocScalars
      \cup ObjectsOf(DocKeys, DocNumbers, MaxMembers)
      \cup {VObj(<<<<B.b>>>>, <<t>>) : t \in DocInner}
      \cup {VObj(<<<<B.b>>, <<B.a>>>>, <<t, VArr(<<t>>)>>) : t \in DocInner}
      \cup {VArr(<<t>>) : t \in DocInner}
      \cup {VArr(<<>>), DuplicateExample}

\* A string in double quotes, as JSON writes it.
DocEscape(c) ==
    CASE c = B.tab -> <<B.bslash, B.t>>
      [] c = B.lf -> <<B.bslash, B.n>>
      [] c = B.dq -> <<B.bslash, B.dq>>
      [] c = B.bslash -> <<B.bslash, B.bslash>>
      [] OTHER -> <<c>>

RECURSIVE DocEscaped(_)
DocEscaped(s) == IF s = <<>> THEN <<>> ELSE DocEscape(s[1]) \o DocEscaped(Tail(s))

DocQuote(s) == <<B.dq>> \o DocEscaped(s) \o <<B.dq>>

RECURSIVE JoinWith(_, _)
JoinWith(texts, sep) ==
    IF texts = <<>> THEN <<>>
    ELSE IF Len(texts) = 1 THEN texts[1]
    ELSE texts[1] \o sep \o JoinWith(Tail(texts), sep)

\* A scalar: json = TRUE quotes every string.
DocScalar(t, json) ==
    CASE t.k = "null" -> TxtNull
      [] t.k = "true" -> TxtTrue
      [] t.k = "false" -> TxtFalse
      [] t.k = "num" -> t.s
      [] t.k = "str" -> IF ~json /\ t.s \in DocBareStrings THEN t.s ELSE DocQuote(t.s)

\* The document as compact JSON.
RECURSIVE RenderJ(_)
RenderJ(t) ==
    CASE t.k = "arr" ->
           <<B.lbrack>> \o JoinWith([i \in 1..Len(t.a) |-> RenderJ(t.a[i])], <<B.comma>>)
             \o <<B.rbrack>>
      [] t.k = "obj" ->
           <<B.lbrace>>
             \o JoinWith([i \in 1..Len(t.a) |->
                            DocQuote(t.ks[i]) \o <<B.colon>> \o RenderJ(t.a[i])],
                         <<B.comma>>)
             \o <<B.rbrace>>
      [] OTHER -> DocScalar(t, TRUE)

\* A line break and n levels of indentation.
NL(n) == <<B.lf>> \o Repeat(<<B.sp, B.sp>>, n)

RECURSIVE Concat(_)
Concat(texts) == IF texts = <<>> THEN <<>> ELSE texts[1] \o Concat(Tail(texts))

\* The document as Hjson, one member or element to a line, braces and brackets
\* on lines of their own; member = TRUE for the value of a member, written
\* behind its key.
RECURSIVE RenderH(_, _, _)
RenderH(t, indent, member) ==
    CASE t.k = "arr" /\ t.a # <<>> ->
           (IF member THEN NL(indent) ELSE <<>>) \o <<B.lbrack>>
             \o Concat([i \in 1..Len(t.a) |->
                          NL(indent + 1) \o RenderH(t.a[i], indent + 1, FALSE)])
             \o NL(indent) \o <<B.rbrack>>
      [] t.k = "obj" /\ t.a # <<>> ->
           (IF member THEN NL(indent) ELSE <<>>) \o <<B.lbrace>>
             \o Concat([i \in 1..Len(t.a) |->
                          NL(indent + 1) \o t.ks[i] \o <<B.colon>>
                            \o RenderH(t.a[i], indent + 1, TRUE)])
             \o NL(indent) \o <<B.rbrace>>
      [] t.k = "arr" /\ t.a = <<>> ->
           (IF member THEN <<B.sp>> ELSE <<>>) \o <<B.lbrack, B.rbrack>>
      [] t.k = "obj" /\ t.a = <<>> ->
           (IF member THEN <<B.sp>> ELSE <<>>) \o <<B.lbrace, B.rbrace>>
      [] OTHER -> (IF member THEN <<B.sp>> ELSE <<>>) \o DocScalar(t, FALSE)

\* A root object without its braces.
RenderBare(t) ==
    JoinWith([i \in 1..Len(t.a) |->
                t.ks[i] \o <<B.colon>> \o RenderH(t.a[i], 0, TRUE)], <<B.lf>>)

\* # x
CommentLine == <<B.hash, B.sp, B.x, B.lf>>

\* A root object without its braces, a comment line in front of each member.
RenderComment(t) ==
    JoinWith([i \in 1..Len(t.a) |->
                CommentLine \o t.ks[i] \o <<B.colon>> \o RenderH(t.a[i], 0, TRUE)],
             <<B.lf>>)

DocStyles == {"json", "hjson", "bare", "comment"}

\* The styles a tree can be written in: only an object with members can be
\* written without braces.
StylesOf(t) ==
    IF t.k = "obj" /\ t.a # <<>> THEN DocStyles ELSE {"json", "hjson"}

Render(t, style) ==
    CASE style = "json" -> RenderJ(t)
      [] style = "bare" -> RenderBare(t)
      [] style = "comment" -> RenderComment(t)
      [] OTHER -> RenderH(t, 0, FALSE)

-----------------------------------------------------------------------------
(* What a document holds, read off the tree it was written from.            *)

\* The keys of an object as written, each at its first occurrence.
RECURSIVE FirstKeys(_, _)
FirstKeys(ks, seen) ==
    IF ks = <<>> THEN <<>>
    ELSE IF ks[1] \in seen THEN FirstKeys(Tail(ks), seen)
    ELSE <<ks[1]>> \o FirstKeys(Tail(ks), seen \cup {ks[1]})

\* The position of the last occurrence of key.
LastIndexOf(ks, key) ==
    CHOOSE i \in 1..Len(ks) : ks[i] = key /\ \A j \in (i + 1)..Len(ks) : ks[j] # key

\* A key is written twice in some object of the tree.
RECURSIVE HasDuplicate(_)
HasDuplicate(t) ==
    \/ t.k = "obj" /\ ~NoDup(t.ks)
    \/ \E i \in 1..Len(t.a) : HasDuplicate(t.a[i])

\* The value of a document number: one digit, or one digit and ".0".
DocNumberValue(s) == <<0, 1, s[1]>>

\* The ordered value of the document: each key once, at its first place and
\* with its last value; sorted = TRUE for the value held in Go maps.
RECURSIVE Expect(_, _)
Expect(t, sorted) ==
    CASE t.k = "obj" ->
           LET ks == IF sorted THEN SortKeys(Range(t.ks)) ELSE FirstKeys(t.ks, {}) IN
           Val(IF sorted THEN "map" ELSE "obj", <<>>,
               [i \in 1..Len(ks) |-> Expect(t.a[LastIndexOf(t.ks, ks[i])], sorted)], ks)
      [] t.k = "arr" -> VArr([i \in 1..Len(t.a) |-> Expect(t.a[i], sorted)])
      [] t.k = "num" -> VNum(DocNumberValue(t.s))
      [] OTHER -> t

\* The keys of a value, level by level, in order: <<depth, key>> for every
\* member, a member before the members of its value.
RECURSIVE KeysOf(_, _)
RECURSIVE KeysOfAll(_, _, _, _)
KeysOf(v, depth) ==
    IF v.k \in {"obj", "map", "struct"} THEN KeysOfAll(v.ks, v.a, depth, TRUE)
    ELSE IF v.k = "arr" THEN KeysOfAll(v.a, v.a, depth, FALSE)
    ELSE <<>>

KeysOfAll(ks, a, depth, named) ==
    IF a = <<>> THEN <<>>
    ELSE (IF named THEN <<<<depth + 1, ks[1]>>>> ELSE <<>>)
         \o KeysOf(a[1], depth + 1)
         \o KeysOfAll(Tail(ks), Tail(a), depth, named)

AllDocKeys == DocKeys \cup {<<B.c>>}

RECURSIVE LeadingSpaces(_)
LeadingSpaces(line) ==
    IF line # <<>> /\ line[1] = B.sp THEN 1 + LeadingSpaces(Tail(line)) ELSE 0

\* The member a line of written text starts, <<depth, key>>, if it starts one.
LineKey(line) ==
    LET n == LeadingSpaces(line) IN
    IF \E key \in AllDocKeys : HasPrefix(SubSeq(line, n + 1, Len(line)), key \o <<B.colon>>)
    THEN <<<<n \div 2, line[n + 1]>>>>
    ELSE <<>>

RECURSIVE LineKeys(_)
LineKeys(lines) ==
    IF lines = <<>> THEN <<>> ELSE LineKey(lines[1]) \o LineKeys(Tail(lines))

\* The members of a written text in the order of its lines, <<depth, first
\* byte of the key>> (the keys of the documents are single bytes).
TextKeys(text) == LineKeys(Split(text, <<>>))

\* KeysOf, with each key cut to its first byte.
KeyBytes(pairs) == [i \in 1..Len(pairs) |-> <<pairs[i][1], pairs[i][2][1]>>]

-----------------------------------------------------------------------------
(* node.go: Node and Comments, read and written with their comments.  The    *)
(* reader and the writer of comments follow the specification and the texts  *)
(* that node_test.go expects (TestNodeNoPointer, TestNodeSliceInsertDelete,  *)
(* TestDisallowDuplicateKeys, TestWhitespaceAsComments).  The elements and   *)
(* members of a container are Nodes; their values are read by readValue.     *)

\* Comments{}
NoComments == [Before |-> <<>>, Key |-> <<>>, Inside |-> <<>>, After |-> <<>>]

\* Node{Value, Cm}
Node(value, cm) == [k |-> "node", Value |-> value, Cm |-> cm]

\* The text between the cursor c and the later cursor c1.
Skipped(d, c, c1) ==
    IF c.ch = 0 THEN <<>>
    ELSE SubSeq(d, IF c.at = 0 THEN 1 ELSE c.at,
                IF c1.ch = 0 THEN Len(d) ELSE c1.at - 1)

HasLineFeed(text) == \E i \in 1..Len(text) : text[i] = B.lf

\* Skipped text is kept when it holds a comment or, white space being kept
\* as comments, a line feed.
CommentText(text) ==
    IF \E i \in 1..Len(text) : text[i] = B.lf \/ text[i] > B.sp THEN text ELSE <<>>

FirstLineFeed(text) ==
    CHOOSE i \in 1..Len(text) : text[i] = B.lf /\ \A j \in 1..(i - 1) : text[j] # B.lf

\* The text between two members or elements: up to the end of the line it
\* belongs to the one before, from the line feed on to the one after.
CommentAfter(text) ==
    IF HasLineFeed(text) THEN SubSeq(text, 1, FirstLineFeed(text) - 1) ELSE text

CommentBefore(text) ==
    IF HasLineFeed(text) THEN SubSeq(text, FirstLineFeed(text), Len(text)) ELSE <<>>

\* A result of reading a container: Ok, and the text inside an empty one.
NodeOk(v, c, inside) == [ok |-> TRUE, v |-> v, c |-> c, msg |-> "", inside |-> inside]

\* The white space, the comma if there is one, and the white space behind a
\* value that ends at c: the cursor behind them and the text without the comma.
NodeAfterComma(d, c, c1) ==
    IF c1.ch = B.comma
    THEN [c |-> White(d, Next(d, c1)),
          text |-> CommentText(Skipped(d, c, c1)
                                 \o Skipped(d, Next(d, c1), White(d, Next(d, c1))))]
    ELSE [c |-> c1, text |-> CommentText(Skipped(d, c, c1))]

\* The end of the value read up to c: a quoteless value is read to its
\* terminator, blanks in front of the terminator are not part of it.
RECURSIVE BackOverBlanks(_, _)
BackOverBlanks(d, at) ==
    IF at > 1 /\ d[at - 1] \in {B.sp, B.tab} THEN BackOverBlanks(d, at - 1) ELSE at

ValueEnd(d, c) ==
    IF c.ch = 0 \/ c.at = 0 THEN c
    ELSE [at |-> BackOverBlanks(d, c.at), ch |-> d[BackOverBlanks(d, c.at)]]

NodeAfter(d, c) == NodeAfterComma(d, ValueEnd(d, c), White(d, c))

\* The container ends behind the text af: its closer, or the end of the input.
NodeAtEnd(af, closer, withoutBraces) ==
    af.c.ch = 0 \/ (af.c.ch = closer /\ ~withoutBraces)

\* The Node of a member or element: value r.v, comments cm, and behind it af.
NodeOf(r, cm, af, closer, withoutBraces) ==
    Node(r.v, [cm EXCEPT !.After = IF NodeAtEnd(af, closer, withoutBraces)
                                   THEN af.text ELSE CommentAfter(af.text)])

RECURSIVE NodeObjectLoop(_, _, _, _, _, _)
RECURSIVE NodeArrayLoop(_, _, _, _, _)

\* readObject: the member has been stored (m); af is what follows its value.
NodeObjectStored(d, c, af, opt, withoutBraces, m) ==
    IF ~m.ok THEN Err("Found duplicate values for key", c)
    ELSE IF af.c.ch = B.rbrace /\ ~withoutBraces
    THEN NodeOk(FromOM(m.om), Next(d, af.c), <<>>)
    ELSE NodeObjectLoop(d, af.c, CommentBefore(af.text), opt, withoutBraces, m.om)

\* readObject: the value r of the member key has been read.
NodeObjectMember(d, r, af, cm, opt, withoutBraces, object, key) ==
    NodeObjectStored(d, r.c, af, opt, withoutBraces,
                     AddMember(opt, object, key,
                               NodeOf(r, cm, af, B.rbrace, withoutBraces)))

\* readObject: the key has been read; c0 is the cursor behind the colon and c
\* the cursor at the value.
NodeObjectValue(d, c0, r, before, opt, withoutBraces, object, key) ==
    IF ~r.ok THEN r
    ELSE NodeObjectMember(d, r, NodeAfter(d, r.c),
                          [NoComments EXCEPT !.Before = before,
                                             !.Key = CommentText(Skipped(d, c0, White(d, c0)))],
                          opt, withoutBraces, object, key)

NodeObjectKey(d, k, before, opt, withoutBraces, object) ==
    IF ~k.ok THEN k
    ELSE IF White(d, k.c).ch # B.colon THEN Err("Expected ':'", White(d, k.c))
    ELSE NodeObjectValue(d, Next(d, White(d, k.c)),
                         ReadValue(d, Next(d, White(d, k.c)), ElemOpt(opt, "map")),
                         before, opt, withoutBraces, object, k.v.s)

\* readObject with comments: the loop over the members; before is the text in
\* front of the key at c.
NodeObjectLoop(d, c, before, opt, withoutBraces, object) ==
    IF c.ch > 0 THEN NodeObjectKey(d, ReadKeyname(d, c), before, opt, withoutBraces, object)
    ELSE IF withoutBraces THEN NodeOk(FromOM(object), c, <<>>)
    ELSE Err("End of input while parsing an object (did you forget a closing '}'?)", c)

\* readObject with comments: c0 is the cursor behind the brace, or the start.
NodeObjectStart(d, c0, c, opt, withoutBraces) ==
    IF c.ch = B.rbrace /\ ~withoutBraces
    THEN NodeOk(FromOM(NewOrderedMap), Next(d, c), CommentText(Skipped(d, c0, c)))
    ELSE NodeObjectLoop(d, c, CommentText(Skipped(d, c0, c)), opt, withoutBraces,
                        NewOrderedMap)

NodeReadObject(d, c, opt, withoutBraces) ==
    IF withoutBraces THEN NodeObjectStart(d, c, White(d, c), opt, TRUE)
    ELSE NodeObjectStart(d, Next(d, c), White(d, Next(d, c)), opt, FALSE)

\* readArray: the element has been read and wrapped; af is what follows it.
NodeArrayStored(d, af, opt, array) ==
    IF af.c.ch = B.rbrack THEN NodeOk(VArr(array), Next(d, af.c), <<>>)
    ELSE NodeArrayLoop(d, af.c, CommentBefore(af.text), opt, array)

NodeArrayElement(d, r, af, before, opt, array) ==
    NodeArrayStored(d, af, opt,
                    Append(array, NodeOf(r, [NoComments EXCEPT !.Before = before],
                                         af, B.rbrack, FALSE)))

NodeArrayValue(d, r, before, opt, array) ==
    IF ~r.ok THEN r
    ELSE NodeArrayElement(d, r, NodeAfter(d, r.c), before, opt, array)

\* readArray with comments: the loop over the elements; before is the text in
\* front of the element at c.
NodeArrayLoop(d, c, before, opt, array) ==
    IF c.ch > 0
    THEN NodeArrayValue(d, ReadValue(d, c, ElemOpt(opt, "slice")), before, opt, array)
    ELSE Err("End of input while parsing an array (did you forget a closing ']'?)", c)

NodeArrayStart(d, c0, c, opt) ==
    IF c.ch = B.rbrack THEN NodeOk(VArr(<<>>), Next(d, c), CommentText(Skipped(d, c0, c)))
    ELSE NodeArrayLoop(d, c, CommentText(Skipped(d, c0, c)), opt, <<>>)

NodeReadArray(d, c, opt) == NodeArrayStart(d, Next(d, c), White(d, Next(d, c)), opt)

\* checkTrailing, and the root Node: before is the text in front of the root
\* value, the text behind it is its After.
NodeRoot(d, r, before, inside) ==
    IF ~r.ok THEN r
    ELSE IF White(d, r.c).ch > 0
    THEN Err("Syntax error, found trailing characters", White(d, r.c))
    ELSE Ok(Node(r.v, [NoComments EXCEPT !.Before = before, !.Inside = inside,
                                         !.After = CommentText(Skipped(d, r.c, White(d, r.c)))]),
            White(d, r.c))

NodeRootContainer(d, r, before) == NodeRoot(d, r, before, IF r.ok THEN r.inside ELSE <<>>)

\* rootValue with comments: c is the cursor after p.white(), res the attempt
\* to read a root object without braces.
NodeRootAt(d, c, opt, res) ==
    IF c.ch = B.lbrace
    THEN NodeRootContainer(d, NodeReadObject(d, c, opt, FALSE),
                           CommentText(Skipped(d, ResetAt, c)))
    ELSE IF c.ch = B.lbrack
    THEN NodeRootContainer(d, NodeReadArray(d, c, opt), CommentText(Skipped(d, ResetAt, c)))
    ELSE IF res.ok THEN res
    ELSE RootSingle(res, NodeRoot(d, ReadValue(d, ResetAt, opt),
                                  CommentText(Skipped(d, ResetAt, c)), <<>>))

NodeRootValue(d, opt) ==
    NodeRootAt(d, White(d, ResetAt), opt,
               NodeRoot(d, NodeReadObject(d, ResetAt, opt, TRUE), <<>>, <<>>))

\* Unmarshal(data, &node) with node a *Node: [ok, v, msg].
NodeResult(r) ==
    IF r.ok THEN [ok |-> TRUE, v |-> r.v, msg |-> ""]
    ELSE [ok |-> FALSE, v |-> VNull, msg |-> r.msg]

NodeUnmarshal(data, strict) == NodeResult(NodeRootValue(data, POpt(<<>>, FALSE, strict)))

\* The writer: the text in front of a member or element is its Before, or
\* the indentation when it has none; first = TRUE for the first member of a
\* root object without braces, which starts the text.
NodeLead(node, indent, first) ==
    IF node.Cm.Before # <<>> THEN node.Cm.Before
    ELSE IF first THEN <<>>
    ELSE WriteIndent(indent)

RECURSIVE NodeElements(_, _)
NodeElements(a, indent) ==
    IF a = <<>> THEN <<>>
    ELSE NodeLead(a[1], indent, FALSE) \o Str(a[1].Value, TRUE, <<>>, FALSE, indent)
         \o a[1].Cm.After \o NodeElements(Tail(a), indent)

RECURSIVE NodeFields(_, _, _, _)
NodeFields(ks, a, indent, first) ==
    IF ks = <<>> THEN <<>>
    ELSE NodeLead(a[1], indent, first) \o QuoteName(ks[1]) \o <<B.colon>>
         \o Str(a[1].Value, FALSE, <<B.sp>>, FALSE, indent)
         \o a[1].Cm.Key \o a[1].Cm.After
         \o NodeFields(Tail(ks), Tail(a), indent, FALSE)

\* The line of the closing brace or bracket: the After of the last member or
\* element when that ends the line, or the indentation.
NodeClose(a, indent) ==
    IF HasLineFeed(a[Len(a)].Cm.After) THEN <<>> ELSE WriteIndent(indent)

\* hjsonEncoder.str on a root Node.
NodeStr(node, emitRootBraces) ==
    CASE node.Value.k = "arr" /\ node.Value.a # <<>> ->
           node.Cm.Before \o <<B.lbrack>> \o NodeElements(node.Value.a, 1)
             \o NodeClose(node.Value.a, 0) \o <<B.rbrack>> \o node.Cm.After
      [] node.Value.k = "arr" /\ node.Value.a = <<>> ->
           node.Cm.Before \o <<B.lbrack>> \o node.Cm.Inside \o <<B.rbrack>>
             \o node.Cm.After
      [] node.Value.k = "obj" /\ node.Value.a = <<>> ->
           node.Cm.Before \o <<B.lbrace>> \o node.Cm.Inside \o <<B.rbrace>>
             \o node.Cm.After
      [] node.Value.k = "obj" /\ node.Value.a # <<>> /\ emitRootBraces ->
           node.Cm.Before \o <<B.lbrace>> \o NodeFields(node.Value.ks, node.Value.a, 1, FALSE)
             \o NodeClose(node.Value.a, 0) \o <<B.rbrace>> \o node.Cm.After
      [] node.Value.k = "obj" /\ node.Value.a # <<>> /\ ~emitRootBraces ->
           node.Cm.Before \o NodeFields(node.Value.ks, node.Value.a, 0, TRUE)
             \o node.Cm.After
      [] OTHER ->
           node.Cm.Before \o Str(node.Value, TRUE, <<>>, TRUE, 0) \o node.Cm.After

\* MarshalWithOptions(node, opt), opt the default options but EmitRootBraces.
NodeMarshal(node, emitRootBraces) ==
    [ok |-> TRUE, out |-> NodeStr(node, emitRootBraces), panic |-> FALSE]

-----------------------------------------------------------------------------
(* A document through Unmarshal, Marshal and Unmarshal again (hjson_test.go, *)
(* run; node_test.go, TestNode1 and TestDisallowDuplicateKeys).  mode is     *)
(* [dest, strict, style]: the destination ("iface" an interface{}, "om" an   *)
(* OrderedMap, "node" a Node), DisallowDuplicateKeys, and the notation of    *)
(* the document.                                                             *)

DocDests == {"iface", "om", "node"}

\* No container of the tree is inside another one.
IsFlat(t) == \A i \in 1..Len(t.a) : t.a[i].k \notin {"obj", "arr"}

\* Unmarshal into the destination.
DecodeInto(data, dest, strict) ==
    IF dest = "node" THEN NodeUnmarshal(data, strict)
    ELSE UnmarshalWithOptions(data, dest, strict)

\* Marshal of what was decoded; a Node is written with EmitRootBraces set as
\* the document has them (node_test.go, verifyNodeContent).
EncodeFrom(v, dest, style) ==
    IF dest = "node" THEN NodeMarshal(v, style \notin {"bare", "comment"})
    ELSE Marshal(v)

DocInit ==
    /\ om = NewOrderedMap /\ last = NoCall
    /\ input \in DocTrees
    /\ mode \in [dest : DocDests, strict : BOOLEAN, style : DocStyles]
    /\ mode.style \in StylesOf(input)
    /\ mode.dest = "node" => IsFlat(input)
    /\ doc = Render(input, mode.style)
    /\ phase = "start"
    /\ r1 = Idle /\ enc = Idle /\ r2 = Idle

\* err := UnmarshalWithOptions(doc, &v, opt)
DocDecode ==
    /\ phase = "start"
    /\ r1' = DecodeInto(doc, mode.dest, mode.strict)
    /\ phase' = "decoded"
    /\ UNCHANGED <<om, last, input, doc, mode, enc, r2>>

\* out, err := Marshal(v)
DocEncode ==
    /\ phase = "decoded"
    /\ r1.ok
    /\ enc' = EncodeFrom(r1.v, mode.dest, mode.style)
    /\ phase' = "encoded"
    /\ UNCHANGED <<om, last, input, doc, mode, r1, r2>>

\* err = UnmarshalWithOptions(out, &v2, opt)
DocDecodeAgain ==
    /\ phase = "encoded"
    /\ enc.ok
    /\ r2' = DecodeInto(enc.out, mode.dest, mode.strict)
    /\ phase' = "decoded2"
    /\ UNCHANGED <<om, last, input, doc, mode, r1, enc>>

DocNext == DocDecode \/ DocEncode \/ DocDecodeAgain

SpecDoc == DocInit /\ [][DocNext]_vars

-----------------------------------------------------------------------------
(* encode.go: hjsonEncoder.str on a host value of pointers, maps, slices and *)
(* structs, call by call (encode_test.go, TestCircularReference).  A host    *)
(* is a linked list of tail list nodes (a pointer to a struct) that leads to *)
(* the values of cycle, each holding the next; the last one holds the first  *)
(* of cycle again (closed) or a number.  The values are numbered from the    *)
(* root, 1; the number of a pointer, map or slice stands for its Pointer().  *)
(* enc is the encoder: pDepth, parents, and the stack of the calls of str,   *)
(* <<value, index of the next child>>.                                       *)

depthLimit == 1024

\* The longest list in front of the cycle, but for DeepTail.
MaxTail == 1

\* A list longer than depthLimit.
DeepTail == depthLimit + 2

CycleShapes ==
    {<<"ptr">>, <<"slice">>, <<"map">>, <<"struct", "ptr">>, <<"ptr", "struct">>,
     <<"map", "slice">>, <<"slice", "ptr", "struct">>}

\* A "pair" is a struct whose two fields hold the same pointer or slice.
SharedShapes == {<<"pair", "ptr">>, <<"pair", "slice">>}

Hosts ==
    [tail : 0..MaxTail, cycle : CycleShapes, closed : BOOLEAN]
      \cup [tail : {DeepTail}, cycle : {<<"ptr", "struct">>, <<"map">>}, closed : BOOLEAN]
      \cup [tail : {0, DeepTail}, cycle : SharedShapes, closed : {FALSE}]

NodeCount(h) == 2 * h.tail + Len(h.cycle)

KindOf(h, n) ==
    IF n <= 2 * h.tail THEN (IF n % 2 = 1 THEN "ptr" ELSE "struct")
    ELSE h.cycle[n - 2 * h.tail]

\* The value the value n holds: the next one, the first of the cycle, or 0
\* for a number.
LinkOf(h, n) ==
    IF n < NodeCount(h) THEN n + 1
    ELSE IF h.closed THEN 2 * h.tail + 1
    ELSE 0

\* What str is called on inside the value n, in order: value.Elem(), the
\* fields of a struct, the elements of a slice, the members of a map in
\* sorted order of keys.  0 is a number.
Children(h, n) ==
    CASE KindOf(h, n) = "ptr" -> <<LinkOf(h, n)>>
      [] KindOf(h, n) = "map" -> <<LinkOf(h, n), 0>>
      [] KindOf(h, n) = "pair" -> <<LinkOf(h, n), LinkOf(h, n)>>
      [] OTHER -> <<0, LinkOf(h, n)>>

\* str: case reflect.Ptr, reflect.Slice, reflect.Map
IsRefKind(kind) == kind \in {"ptr", "slice", "map"}

\* The pointers, maps and slices of a list of kinds.
RECURSIVE RefCount(_)
RefCount(kinds) ==
    IF kinds = <<>> THEN 0
    ELSE (IF IsRefKind(kinds[1]) THEN 1 ELSE 0) + RefCount(Tail(kinds))

\* The limit is never passed.
PastLimitNever(pDepth) == FALSE

\* str: e.pDepth > depthLimit, the value is looked up in parents and recorded.
PastLimit(pDepth) == pDepth > depthLimit

\* str: _, ok := e.parents[p], when the limit is passed.
CircularFound(pDepth, parents, p) == PastLimit(pDepth) /\ p \in parents

NewEncoder == [pDepth |-> 0, parents |-> {}, stack |-> <<>>]

CircularError == [ok |-> FALSE, msg |-> "Circular reference found"]

\* More calls than str can be in on any host of the model.
DepthCap == 2 * (depthLimit + DeepTail) + 16

\* The encoder after the call of str on the value n has begun.
Entered(e, h, n) ==
    IF IsRefKind(KindOf(h, n))
    THEN [pDepth |-> e.pDepth + 1,
          parents |-> IF PastLimit(e.pDepth + 1) THEN e.parents \cup {n} ELSE e.parents,
          stack |-> Append(e.stack, <<n, 1>>)]
    ELSE [e EXCEPT !.stack = Append(e.stack, <<n, 1>>)]

\* The call of str on the value n finds n among its parents.
Refused(e, h, n) ==
    IsRefKind(KindOf(h, n)) /\ CircularFound(e.pDepth + 1, e.parents, n)

\* The encoder in the call that finds the circular reference.
Refusing(e) == [e EXCEPT !.pDepth = e.pDepth + 1]

\* str without `defer delete(e.parents, p)`.
ReturnedKeepingParent(e, h, n) ==
    IF IsRefKind(KindOf(h, n))
    THEN [pDepth |-> e.pDepth - 1,
          parents |-> e.parents,
          stack |-> SubSeq(e.stack, 1, Len(e.stack) - 1)]
    ELSE [e EXCEPT !.stack = SubSeq(e.stack, 1, Len(e.stack) - 1)]

\* The encoder after the call of str on the value n has returned: the
\* deferred functions delete n from parents and count pDepth down.
Returned(e, h, n) ==
    IF IsRefKind(KindOf(h, n))
    THEN [pDepth |-> e.pDepth - 1,
          parents |-> IF PastLimit(e.pDepth) THEN e.parents \ {n} ELSE e.parents,
          stack |-> SubSeq(e.stack, 1, Len(e.stack) - 1)]
    ELSE [e EXCEPT !.stack = SubSeq(e.stack, 1, Len(e.stack) - 1)]

\* The call of str that is running, and the child it comes to next.
Top(e) == e.stack[Len(e.stack)]
HasNext(e, h) == Top(e)[2] <= Len(Children(h, Top(e)[1]))
NextChild(e, h) == Children(h, Top(e)[1])[Top(e)[2]]
Advanced(e) == [e EXCEPT !.stack[Len(e.stack)] = <<Top(e)[1], Top(e)[2] + 1>>]

CycleInit ==
    /\ om = NewOrderedMap /\ last = NoCall
    /\ input \in Hosts
    /\ mode = "marshal" /\ phase = "start"
    /\ enc = NewEncoder
    /\ doc = <<>> /\ r1 = Idle /\ r2 = Idle

\* Marshal(host): e.str(reflect.ValueOf(v), ...)
CycleMarshal ==
    /\ phase = "start"
    /\ enc' = Entered(enc, input, 1)
    /\ phase' = "running"
    /\ UNCHANGED <<om, last, input, doc, mode, r1, r2>>

\* str on a number: it is written.
StrScalar ==
    /\ phase = "running" /\ HasNext(enc, input) /\ NextChild(enc, input) = 0
    /\ enc' = Advanced(enc)
    /\ UNCHANGED <<om, last, input, doc, mode, phase, r1, r2>>

\* The call in which the circular reference was found: the value, pDepth
\* in that call, and the calls and parents it was made from.
RefusedCall(e, n) ==
    [op |-> "refused", value |-> n, pDepth |-> e.pDepth + 1, parents |-> e.parents,
     stack |-> e.stack]

\* str is called on a pointer, map, slice or struct.
StrEnter ==
    /\ phase = "running" /\ HasNext(enc, input) /\ NextChild(enc, input) # 0
    /\ Len(enc.stack) < DepthCap
    /\ IF Refused(enc, input, NextChild(enc, input))
       THEN /\ enc' = Refusing(enc)
            /\ r1' = CircularError
            /\ last' = RefusedCall(enc, NextChild(enc, input))
            /\ phase' = "failing"
       ELSE /\ enc' = Entered(Advanced(enc), input, NextChild(enc, input))
            /\ UNCHANGED <<r1, last, phase>>
    /\ UNCHANGED <<om, input, doc, mode, r2>>

\* str returns nil; the last return is that of Marshal.
StrReturn ==
    /\ phase = "running" /\ ~HasNext(enc, input)
    /\ enc' = Returned(enc, input, Top(enc)[1])
    /\ IF Len(enc.stack) = 1
       THEN phase' = "done" /\ r1' = [ok |-> TRUE, msg |-> ""]
       ELSE UNCHANGED <<phase, r1>>
    /\ UNCHANGED <<om, last, input, doc, mode, r2>>

\* The encoder after a call of str on the value n has returned the error
\* of a call it made: its deferred functions run.  The call that found the
\* circular reference returned before it deferred anything, so pDepth stays
\* one above the calls that are open.
ReturnedError(e, h, n) ==
    LET e1 == Returned([e EXCEPT !.pDepth = e.pDepth - 1], h, n)
    IN [e1 EXCEPT !.pDepth = e1.pDepth + 1]

\* The error is returned from call to call; the last return is that of
\* Marshal.
StrFail ==
    /\ phase = "failing"
    /\ enc' = ReturnedError(enc, input, Top(enc)[1])
    /\ phase' = IF Len(enc.stack) = 1 THEN "done" ELSE "failing"
    /\ UNCHANGED <<om, last, input, doc, mode, r1, r2>>

CycleNext == CycleMarshal \/ StrScalar \/ StrEnter \/ StrReturn \/ StrFail

\* Marshal runs on its own: a call that can go on does.
SpecCycle == CycleInit /\ [][CycleNext]_vars /\ WF_vars(CycleNext)

-----------------------------------------------------------------------------
(* C4: after any sequence of Insert, Set, DeleteIndex and DeleteKey calls on  *)
(* a map made by NewOrderedMap or NewOrderedMapFromSlice, Keys holds no key   *)
(* twice and the keys in Keys are exactly the keys of Map, so Len() is the    *)
(* number of mappings.                                                        *)
C4_KeysMatchMap ==
    /\ NoDup(om.Keys)
    /\ Range(om.Keys) = DOMAIN om.Map
    /\ OMLen(om) = Cardinality(DOMAIN om.Map)

\* An insert of a key that was already there, at a position other than its own,
\* into a map of three keys.
C4_Witness ==
    /\ last.op = "Insert"
    /\ last.found
    /\ OMLen(om) = 3
    /\ last.index < 3
    /\ last.old.Keys[last.index + 1] # last.key

(* C10: Insert(i, k, v) with 0 <= i <= Len(): an absent k is placed at        *)
(* position i, the keys before i and from i on keeping their order, and maps  *)
(* to v; a present k gets the value v and Keys is unchanged; every other key  *)
(* keeps its value.  Set(k, v) is Insert(Len(), k, v): a new key comes last.  *)
C10_InsertPlacesKey ==
    last.op \in {"Insert", "Set"} =>
        LET old == last.old
            i == last.index
            n == Len(old.Keys)
        IN
        /\ last.op = "Set" => i = n
        /\ om.Map[last.key] = last.value
        /\ \A k \in DOMAIN old.Map : k # last.key => (k \in DOMAIN om.Map /\ om.Map[k] = old.Map[k])
        /\ DOMAIN om.Map = DOMAIN old.Map \cup {last.key}
        /\ last.key \in DOMAIN old.Map => om.Keys = old.Keys
        /\ last.key \notin DOMAIN old.Map =>
              /\ Len(om.Keys) = n + 1
              /\ om.Keys[i + 1] = last.key
              /\ \A j \in 1..i : om.Keys[j] = old.Keys[j]
              /\ \A j \in (i + 1)..n : om.Keys[j + 1] = old.Keys[j]

\* A new key inserted strictly inside a map of two keys.
C10_Witness ==
    /\ last.op = "Insert"
    /\ ~last.found
    /\ last.index = 1
    /\ Len(last.old.Keys) = 2
    /\ Len(om.Keys) = 3

-----------------------------------------------------------------------------
(* C2: for every string s, Marshal followed by Unmarshal returns exactly s,  *)
(* when s is the document root and when s is the value of an object member   *)
(* or an array element.                                                      *)
C2_StringRoundTrip ==
    phase = "decoded" => StringIn(mode, r1) = [found |-> TRUE, s |-> input]

\* The text of the value inside the document Marshal wrote for HostOf(ctx, s).
ValueText(ctx, text) ==
    CASE ctx = "root" -> text
      [] ctx = "member" ->
           SubSeq(text, Len(<<B.lbrace>> \o WriteIndent(1) \o FieldF \o <<B.colon>>) + 1,
                  Len(text) - Len(WriteIndent(0) \o <<B.rbrace>>))
      [] ctx = "element" ->
           SubSeq(text, Len(<<B.lbrack>> \o WriteIndent(1)) + 1,
                  Len(text) - Len(WriteIndent(0) \o <<B.rbrack>>))

\* t is written in the multiline form: three single quotes, the text, three
\* single quotes, after white space only.
IsMultilineForm(t) ==
    LET u == TrimLeft(t) IN
    /\ Len(u) >= 2 * Len(TripleQuote)
    /\ HasPrefix(u, TripleQuote)
    /\ SubSeq(u, Len(u) - 2, Len(u)) = TripleQuote

\* s cannot be written bare and holds a byte that must be escaped in quotes.
MustEscape(s) ==
    /\ s # <<>>
    /\ NeedsQuotes(s) \/ StartsWithNumber(s) \/ StartsWithKeyword(s)
    /\ NeedsEscape(s)

(* C9: Marshal never writes the multiline form for a string that is the      *)
(* document root: a root string that needs escaping (it cannot be written    *)
(* bare and holds a byte that quotes do not protect) is written double-quoted *)
(* and escaped; the same string as an object member or an array element is   *)
(* written in the multiline form when it has no multiline-unsafe byte.        *)
C9_MultilineNotAtRoot ==
    phase = "encoded" =>
        LET t == ValueText(mode, doc) IN
        /\ mode = "root" => ~IsMultilineForm(t)
        /\ mode = "root" /\ MustEscape(input) =>
              /\ t[1] = B.dq /\ t[Len(t)] = B.dq
              /\ SubSeq(t, 2, Len(t) - 1) = QuoteReplace(input)
              /\ \A i \in 2..(Len(t) - 1) : ~IsControl(t[i])
        /\ mode # "root" /\ MustEscape(input) /\ ~NeedsEscapeML(input) =>
              IsMultilineForm(t)

\* A member string of two lines with a backslash has been written as a
\* multiline block.
C9_Witness ==
    /\ phase = "encoded" /\ mode = "member"
    /\ input = <<B.bslash, B.lf, B.x>>
    /\ IsMultilineForm(ValueText(mode, doc))

-----------------------------------------------------------------------------
\* The tree holds only scalars that the encoder writes as the document has
\* them.
RECURSIVE IsCanonical(_)
IsCanonical(t) ==
    IF t.k \in {"obj", "arr"} THEN \A i \in 1..Len(t.a) : IsCanonical(t.a[i])
    ELSE t \in DocCanonical

\* A decoded Node tree without its Nodes and comments.
RECURSIVE PlainOf(_)
PlainOf(v) ==
    IF v.k = "node" THEN PlainOf(v.Value)
    ELSE IF v.k \in {"obj", "arr"} THEN [v EXCEPT !.a = [i \in 1..Len(v.a) |-> PlainOf(v.a[i])]]
    ELSE v

\* What decoding the document into the destination gives.
ExpectInto(t, dest) == Expect(t, dest = "iface")

(* C1: for every valid document, decoding it into a generic value (an        *)
(* interface{}), encoding that value with the default options and decoding   *)
(* the output again succeeds and yields a value equal to the first decoded   *)
(* value.                                                                    *)
C1_RoundTrip ==
    mode \in [dest : {"iface"}, strict : {FALSE}, style : DocStyles] =>
        /\ phase = "decoded" => r1.ok
        /\ phase = "encoded" => enc.ok
        /\ phase = "decoded2" => r2.ok /\ r2.v = r1.v

C6_LastValueFirstPlace ==
    ~mode.strict /\ phase = "decoded" /\ input.k = "obj" /\ HasDuplicate(input) =>
        /\ r1.ok
        /\ PlainOf(r1.v) = ExpectInto(input, mode.dest)

\* a: 1, a: 2, b: 3, c: 4, b: 5 has been decoded to a: 2, b: 5, c: 4.
C6_Witness ==
    /\ phase = "decoded" /\ mode = [dest |-> "om", strict |-> FALSE, style |-> "bare"]
    /\ input = DuplicateExample
    /\ r1.ok
    /\ r1.v = VObj(<<<<B.a>>, <<B.b>>, <<B.c>>>>,
                   <<VNum(<<0, 1, B.d2>>), VNum(<<0, 1, B.d5>>), VNum(<<0, 1, B.d4>>)>>)

-----------------------------------------------------------------------------
\* The depth at which the cycle of a host is entered, counted as pDepth
\* counts: the pointers of the list in front of it.
TailRefs(h) == h.tail

Max(a, b) == IF a >= b THEN a ELSE b

(* C8 as stated: for every host value with a reference cycle through         *)
(* pointers, maps or slices, Marshal ends and returns the circular-reference *)
(* error, and the depth it counts (pDepth, the pointers, maps and slices it  *)
(* is inside of) never passes depthLimit plus one pass round the cycle.      *)
C8_CycleWithinLimit ==
    /\ [](input.closed =>
            enc.pDepth <= depthLimit + RefCount(input.cycle) + 1)
    /\ (input.closed ~> (phase = "done" /\ r1 = CircularError))

(* C8, amended: for every host value with a reference cycle through          *)
(* pointers, maps or slices, Marshal ends and returns the circular-reference *)
(* error, and pDepth never passes one pass round the cycle on top of         *)
(* depthLimit or of the depth at which the cycle is entered, whichever is    *)
(* greater.                                                                   *)
C8_CycleReported ==
    /\ [](input.closed =>
            enc.pDepth <= Max(depthLimit, TailRefs(input)) + RefCount(input.cycle) + 1)
    /\ (input.closed ~> (phase = "done" /\ r1 = CircularError))

\* Marshal of a pointer that points to itself has returned the error.
C8_Witness ==
    /\ phase = "done"
    /\ input = [tail |-> 0, cycle |-> <<"ptr">>, closed |-> TRUE]
    /\ r1 = CircularError
    /\ enc.stack = <<>> /\ enc.parents = {}

-----------------------------------------------------------------------------
\* new is old without the key at position p (1-based): the other keys keep
\* their order, the mapping loses that key only and keeps every other value.
RemovedAt(old, new, p) ==
    /\ Len(new.Keys) = Len(old.Keys) - 1
    /\ \A j \in 1..(p - 1) : new.Keys[j] = old.Keys[j]
    /\ \A j \in p..Len(new.Keys) : new.Keys[j] = old.Keys[j + 1]
    /\ DOMAIN new.Map = (DOMAIN old.Map) \ {old.Keys[p]}
    /\ \A k \in DOMAIN new.Map : new.Map[k] = old.Map[k]

(* C11: DeleteIndex(i) with 0 <= i < Len() removes exactly the key at        *)
(* position i from the key sequence and from the mapping and keeps the order *)
(* and the values of the other keys; DeleteKey(k) does the same for a key    *)
(* that is present, and for an absent key reports not-found and changes      *)
(* neither the key sequence nor the mapping.                                 *)
C11_DeleteRemovesOneKey ==
    /\ last.op = "DeleteIndex" => RemovedAt(last.old, om, last.index + 1)
    /\ last.op = "DeleteKey" /\ last.key \in Range(last.old.Keys) =>
          /\ last.found
          /\ \E p \in 1..Len(last.old.Keys) :
                last.old.Keys[p] = last.key /\ RemovedAt(last.old, om, p)
    /\ last.op = "DeleteKey" /\ last.key \notin Range(last.old.Keys) =>
          ~last.found /\ om = last.old

\* The middle key of three has been deleted by index, and the two others are
\* left in their order with their values.
C11_Witness ==
    /\ last.op = "DeleteIndex" /\ last.index = 1
    /\ last.old.Keys = <<"c", "a", "b">>
    /\ om.Keys = <<"c", "b">>
    /\ om.Map = [k \in {"c", "b"} |-> last.old.Map[k]]

\* What a call hands back to its caller: Insert, Set and DeleteKey return one
\* bool, DeleteIndex returns nothing.
OMReturn(call) ==
    IF call.op \in {"Insert", "Set", "DeleteKey"} THEN <<call.found>> ELSE <<>>

\* The value the key had before the call; NoValue stands for nil.
PreviousValue(call) ==
    IF call.key \in DOMAIN call.old.Map THEN call.old.Map[call.key] ELSE NoValue

(* C12: Insert returns the key's previous value together with a found flag   *)
(* that is true exactly when the key was already present; DeleteKey returns  *)
(* the removed value together with a found flag; DeleteIndex returns the     *)
(* removed key and its value.                                                *)
C12_ReturnsPreviousValue ==
    /\ last.op \in {"Insert", "DeleteKey"} =>
          OMReturn(last) = <<PreviousValue(last), last.key \in DOMAIN last.old.Map>>
    /\ last.op = "DeleteIndex" =>
          OMReturn(last) = <<last.key, PreviousValue(last)>>

-----------------------------------------------------------------------------
(* node.go: the editing calls on a tree of Nodes.  A *Node is the path from  *)
(* the root of the tree to the Node (the positions of the children, from 1), *)
(* or nil.  A container of the tree is an OrderedMap, tagged "om", or a      *)
(* []interface{}, tagged "arr"; Unmarshal and the calls below only ever put  *)
(* Nodes into a container.                                                   *)

\* A *hjson.OrderedMap as the value of a Node.
VOM(c) == [k |-> "om", Keys |-> c.Keys, Map |-> c.Map]

\* A nil *Node, as a value and as a path.
NilNode == [k |-> "nil"]
NilPath == <<0>>

\* elem.(*Node)
IsNode(elem) == elem.k = "node"

\* reflect.TypeOf(value), as %v prints it.
TypeOf(v) ==
    CASE v.k = "null" -> "<nil>"
      [] v.k = "om" -> "*hjson.OrderedMap"
      [] v.k = "arr" -> "[]interface {}"
      [] v.k = "str" -> "string"
      [] v.k = "num" -> "float64"
      [] v.k = "node" -> "*hjson.Node"
      [] OTHER -> "bool"

\* The errors of node.go: nil, and fmt.Errorf with its %v argument.
NoError == [msg |-> "", type |-> ""]
ErrNodeIsNil == [msg |-> "Node is nil", type |-> ""]
ErrValueType(v) == [msg |-> "Unexpected value type: %v", type |-> TypeOf(v)]
ErrElementType(elem) == [msg |-> "Unexpected element type: %v", type |-> TypeOf(elem)]

\* Node.Len
NodeLen(c) ==
    IF c = NilNode THEN 0
    ELSE CASE c.Value.k = "om" -> Len(c.Value.Keys)
           [] c.Value.k = "arr" -> Len(c.Value.a)
           [] c.Value.k = "str" -> Len(c.Value.s)
           [] OTHER -> 0

\* cont.AtIndex(index) on an OrderedMap, cont[index] on a slice.
ElemAt(cont, index) ==
    IF cont.k = "om" THEN cont.Map[cont.Keys[index + 1]] ELSE cont.a[index + 1]

\* Node.AtIndex, for 0 <= index < Len() on a container.
NodeAtIndex(c, index) ==
    IF c = NilNode THEN [value |-> VNull, err |-> ErrNodeIsNil]
    ELSE IF c.Value.k \notin {"om", "arr"}
    THEN [value |-> VNull, err |-> ErrValueType(c.Value)]
    ELSE LET elem == ElemAt(c.Value, index) IN
         IF ~IsNode(elem) THEN [value |-> VNull, err |-> ErrElementType(elem)]
         ELSE [value |-> elem.Value, err |-> NoError]

\* Node.AtKey
NodeAtKey(c, key) ==
    IF c = NilNode THEN [value |-> VNull, found |-> FALSE, err |-> NoError]
    ELSE IF c.Value.k # "om"
    THEN [value |-> VNull, found |-> FALSE, err |-> ErrValueType(c.Value)]
    ELSE IF key \notin DOMAIN c.Value.Map
    THEN [value |-> VNull, found |-> FALSE, err |-> NoError]
    ELSE LET elem == c.Value.Map[key] IN
         IF ~IsNode(elem)
         THEN [value |-> VNull, found |-> FALSE, err |-> ErrElementType(elem)]
         ELSE [value |-> elem.Value, found |-> TRUE, err |-> NoError]

\* Append that says nothing when c is nil.
NodeAppendQuiet(c, value) ==
    IF c = NilNode THEN [node |-> c, err |-> NoError]
    ELSE IF c.Value.k \notin {"null", "arr"}
    THEN [node |-> c, err |-> ErrValueType(c.Value)]
    ELSE LET arr == IF c.Value.k = "null" THEN <<>> ELSE c.Value.a IN
         [node |-> [c EXCEPT !.Value = VArr(Append(arr, Node(value, NoComments)))],
          err |-> NoError]

\* Node.Append: node is what c points to after the call.
NodeAppend(c, value) ==
    IF c = NilNode THEN [node |-> c, err |-> ErrNodeIsNil]
    ELSE IF c.Value.k \notin {"null", "arr"}
    THEN [node |-> c, err |-> ErrValueType(c.Value)]
    ELSE LET arr == IF c.Value.k = "null" THEN <<>> ELSE c.Value.a IN
         [node |-> [c EXCEPT !.Value = VArr(Append(arr, Node(value, NoComments)))],
          err |-> NoError]

\* cont[index] = elem on a slice, cont.Map[cont.Keys[index]] = elem on an
\* OrderedMap.
WithElemAt(cont, index, elem) ==
    IF cont.k = "om"
    THEN [cont EXCEPT !.Map = MapSet(cont.Map, cont.Keys[index + 1], elem)]
    ELSE [cont EXCEPT !.a = [cont.a EXCEPT ![index + 1] = elem]]

\* SetIndex that puts a new Node in the place of the old one.
NodeSetIndexFresh(c, index, value) ==
    IF c = NilNode THEN [node |-> c, err |-> ErrNodeIsNil]
    ELSE IF c.Value.k \notin {"om", "arr"}
    THEN [node |-> c, err |-> ErrValueType(c.Value)]
    ELSE [node |-> [c EXCEPT !.Value = WithElemAt(c.Value, index, Node(value, NoComments))],
          err |-> NoError]

\* Node.SetIndex, for 0 <= index < Len() on a container.
NodeSetIndex(c, index, value) ==
    IF c = NilNode THEN [node |-> c, err |-> ErrNodeIsNil]
    ELSE IF c.Value.k \notin {"om", "arr"}
    THEN [node |-> c, err |-> ErrValueType(c.Value)]
    ELSE LET elem == ElemAt(c.Value, index)
             new == IF IsNode(elem) THEN [elem EXCEPT !.Value = value]
                    ELSE Node(value, NoComments)
         IN [node |-> [c EXCEPT !.Value = WithElemAt(c.Value, index, new)],
             err |-> NoError]

\* The rest of Node.SetKey, once c.Value holds the OrderedMap cont.
SetKeyIn(c, cont, key, value) ==
    IF key \in DOMAIN cont.Map /\ IsNode(cont.Map[key])
    THEN [node |-> [c EXCEPT !.Value =
                       VOM([cont EXCEPT !.Map = MapSet(cont.Map, key,
                                [cont.Map[key] EXCEPT !.Value = value])])],
          found |-> TRUE, err |-> NoError]
    ELSE LET r == Set(cont, key, Node(value, NoComments)) IN
         [node |-> [c EXCEPT !.Value = VOM(r.om)], found |-> r.found, err |-> NoError]

\* SetKey that makes an object of whatever the Node holds.
NodeSetKeyOverwrite(c, key, value) ==
    IF c = NilNode THEN [node |-> c, found |-> FALSE, err |-> ErrNodeIsNil]
    ELSE IF c.Value.k # "om" THEN SetKeyIn(c, NewOrderedMap, key, value)
    ELSE SetKeyIn(c, c.Value, key, value)

\* Node.SetKey
NodeSetKey(c, key, value) ==
    IF c = NilNode THEN [node |-> c, found |-> FALSE, err |-> ErrNodeIsNil]
    ELSE IF c.Value.k = "null" THEN SetKeyIn(c, NewOrderedMap, key, value)
    ELSE IF c.Value.k # "om"
    THEN [node |-> c, found |-> FALSE, err |-> ErrValueType(c.Value)]
    ELSE SetKeyIn(c, c.Value, key, value)

\* Node.NI: the place of the child among the elements (from 1), 0 for nil.
NodeNI(c, index) ==
    IF c = NilNode THEN 0
    ELSE IF c.Value.k \notin {"om", "arr"} THEN 0
    ELSE IF IsNode(ElemAt(c.Value, index)) THEN index + 1 ELSE 0

\* Node.NK
NodeNK(c, key) ==
    IF c = NilNode THEN 0
    ELSE IF c.Value.k # "om" THEN 0
    ELSE IF key \in DOMAIN c.Value.Map /\ IsNode(c.Value.Map[key])
    THEN IndexOf(c.Value.Keys, key) ELSE 0

\* The rest of Node.NKC, once c.Value holds the OrderedMap cont.
NKCIn(c, cont, key) ==
    IF key \in DOMAIN cont.Map
    THEN [node |-> [c EXCEPT !.Value = VOM(cont)],
          child |-> IF IsNode(cont.Map[key]) THEN IndexOf(cont.Keys, key) ELSE 0]
    ELSE LET r == Set(cont, key, Node(VNull, NoComments)) IN
         [node |-> [c EXCEPT !.Value = VOM(r.om)], child |-> Len(r.om.Keys)]

\* NKC that makes an object of whatever the Node holds.
NodeNKCOverwrite(c, key) ==
    IF c = NilNode THEN [node |-> c, child |-> 0]
    ELSE IF c.Value.k # "om" THEN NKCIn(c, NewOrderedMap, key)
    ELSE NKCIn(c, c.Value, key)

\* Node.NKC
NodeNKC(c, key) ==
    IF c = NilNode THEN [node |-> c, child |-> 0]
    ELSE IF c.Value.k = "null" THEN NKCIn(c, NewOrderedMap, key)
    ELSE IF c.Value.k # "om" THEN [node |-> c, child |-> 0]
    ELSE NKCIn(c, c.Value, key)

-----------------------------------------------------------------------------
(* A tree of Nodes under a sequence of calls (node_test.go: TestNode2,       *)
(* TestNode4, TestDeclareNodeMap, TestDeclareNodeSlice).                     *)

\* The most Nodes a tree may grow to.
MaxNodes == 3

NodeKeys == {"a", "b"}
NodeValues == {VBool(FALSE), VStr(<<B.x>>)}

CmHash == <<B.hash, B.sp, B.c>>
CmLine == <<B.slash, B.slash, B.c, B.lf>>
CmBlock == <<B.sp, B.slash, B.star, B.c, B.star, B.slash>>

\* var node Node
TreeNil == Node(VNull, NoComments)

\* A Node holding a string.
TreeString == Node(VStr(<<B.a>>), [NoComments EXCEPT !.Before = CmLine])

\* The tree of TestNode4: b holds an object, a holds a value, all with comments.
TreeObject ==
    LET sub == Node(VNum(<<0, 1, B.d1>>), [NoComments EXCEPT !.After = CmHash])
        b == Node(VOM([Keys |-> <<"a">>, Map |-> [k \in {"a"} |-> sub]]),
                  [Before |-> CmLine, Key |-> CmBlock, Inside |-> <<>>, After |-> CmHash])
        a == Node(VNum(<<0, 1, B.d2>>), [NoComments EXCEPT !.Before = CmLine])
    IN Node(VOM([Keys |-> <<"b", "a">>, Map |-> [k \in {"a", "b"} |-> IF k = "a" THEN a ELSE b]]),
            [NoComments EXCEPT !.After = CmBlock])

\* The tree of TestNode3: a slice of two Nodes with comments.
TreeArray ==
    Node(VArr(<<Node(VNum(<<0, 1, B.d1>>), [NoComments EXCEPT !.Before = CmLine, !.After = CmHash]),
                Node(VStr(<<B.a>>), [NoComments EXCEPT !.Before = CmLine])>>),
         [NoComments EXCEPT !.Inside = CmBlock])

NodeTrees == {TreeNil, TreeString, TreeObject, TreeArray}

\* The Node a path leads to from node.
RECURSIVE NodeAtPath(_, _)
NodeAtPath(node, path) ==
    IF path = <<>> THEN node
    ELSE NodeAtPath(ElemAt(node.Value, path[1] - 1), Tail(path))

\* *p
Deref(tree, p) == IF p = NilPath THEN NilNode ELSE NodeAtPath(tree, p)

\* The tree after the Node at path has become new.
RECURSIVE Assign(_, _, _)
Assign(node, path, new) ==
    IF path = <<>> THEN new
    ELSE [node EXCEPT !.Value =
             WithElemAt(node.Value, path[1] - 1,
                        Assign(ElemAt(node.Value, path[1] - 1), Tail(path), new))]

\* The tree after a call has left new in *p.
AssignAt(tree, p, new) == IF p = NilPath THEN tree ELSE Assign(tree, p, new)

\* The child of p at place i (from 1); nil for place 0.
ChildPath(p, i) == IF i = 0 THEN NilPath ELSE p \o <<i>>

\* The places of the elements of node that are Nodes.
NodePlaces(node) ==
    IF node.Value.k \in {"om", "arr"}
    THEN {i \in 1..NodeLen(node) : IsNode(ElemAt(node.Value, i - 1))}
    ELSE {}

\* Every *Node a caller can hold: the Nodes of the tree, and nil.
RECURSIVE PathsOf(_)
PathsOf(node) ==
    {<<>>} \cup UNION {{<<i>> \o q : q \in PathsOf(ElemAt(node.Value, i - 1))} :
                       i \in NodePlaces(node)}

Pointers(tree) == PathsOf(tree) \cup {NilPath}

\* The number of Nodes in the tree below and including node.
RECURSIVE SumSizes(_, _)
RECURSIVE TreeSize(_)
SumSizes(node, places) ==
    IF places = {} THEN 0
    ELSE LET i == CHOOSE x \in places : TRUE IN
         TreeSize(ElemAt(node.Value, i - 1)) + SumSizes(node, places \ {i})

TreeSize(node) == 1 + SumSizes(node, NodePlaces(node))

\* The call that turns the tree old into new adds no Node, or the tree stays
\* within the bound of the model.
Bounded(old, new) == TreeSize(new) <= TreeSize(old) \/ TreeSize(new) <= MaxNodes

\* The indexes a caller may pass: inside the container, any where the call
\* does not come to index.
Indexes(c) ==
    IF c # NilNode /\ c.Value.k \in {"om", "arr"} THEN 0..(NodeLen(c) - 1) ELSE {0}

\* The record of a call: what it was given, the tree before it, and what it
\* returned.
Called(op, p, key, index, value, old, res) ==
    [op |-> op, recv |-> p, key |-> key, index |-> index, value |-> value,
     old |-> old, res |-> res]

\* What a call returned; a slot the call does not have holds its zero value.
Res(value, found, err, child) ==
    [value |-> value, found |-> found, err |-> err, child |-> child]

NoNodeCall == Called("none", NilPath, "", 0, VNull, TreeNil, Res(VNull, FALSE, NoError, NilPath))

NodeInit ==
    /\ r1 \in NodeTrees
    /\ input = r1
    /\ last = NoNodeCall
    /\ om = NewOrderedMap
    /\ doc = <<>> /\ mode = Idle /\ phase = "edit" /\ enc = Idle /\ r2 = Idle

\* value, err := p.AtIndex(index)
CallAtIndex ==
    \E p \in Pointers(r1) : \E index \in Indexes(Deref(r1, p)) :
        LET r == NodeAtIndex(Deref(r1, p), index) IN
        /\ last' = Called("AtIndex", p, "", index, VNull, r1,
                          Res(r.value, FALSE, r.err, NilPath))
        /\ UNCHANGED r1

\* value, found, err := p.AtKey(key)
CallAtKey ==
    \E p \in Pointers(r1), key \in NodeKeys :
        LET r == NodeAtKey(Deref(r1, p), key) IN
        /\ last' = Called("AtKey", p, key, 0, VNull, r1,
                          Res(r.value, r.found, r.err, NilPath))
        /\ UNCHANGED r1

\* err := p.Append(value)
CallAppend ==
    \E p \in Pointers(r1), value \in NodeValues :
        LET r == NodeAppend(Deref(r1, p), value) IN
        /\ Bounded(r1, AssignAt(r1, p, r.node))
        /\ r1' = AssignAt(r1, p, r.node)
        /\ last' = Called("Append", p, "", 0, value, r1,
                          Res(VNull, FALSE, r.err, NilPath))

\* err := p.SetIndex(index, value)
CallSetIndex ==
    \E p \in Pointers(r1), value \in NodeValues : \E index \in Indexes(Deref(r1, p)) :
        LET r == NodeSetIndex(Deref(r1, p), index, value) IN
        /\ Bounded(r1, AssignAt(r1, p, r.node))
        /\ r1' = AssignAt(r1, p, r.node)
        /\ last' = Called("SetIndex", p, "", index, value, r1,
                          Res(VNull, FALSE, r.err, NilPath))

\* found, err := p.SetKey(key, value)
CallSetKey ==
    \E p \in Pointers(r1), key \in NodeKeys, value \in NodeValues :
        LET r == NodeSetKey(Deref(r1, p), key, value) IN
        /\ Bounded(r1, AssignAt(r1, p, r.node))
        /\ r1' = AssignAt(r1, p, r.node)
        /\ last' = Called("SetKey", p, key, 0, value, r1,
                          Res(VNull, r.found, r.err, NilPath))

\* child := p.NI(index)
CallNI ==
    \E p \in Pointers(r1) : \E index \in Indexes(Deref(r1, p)) :
        /\ last' = Called("NI", p, "", index, VNull, r1,
                          Res(VNull, FALSE, NoError,
                              ChildPath(p, NodeNI(Deref(r1, p), index))))
        /\ UNCHANGED r1

\* child := p.NK(key)
CallNK ==
    \E p \in Pointers(r1), key \in NodeKeys :
        /\ last' = Called("NK", p, key, 0, VNull, r1,
                          Res(VNull, FALSE, NoError,
                              ChildPath(p, NodeNK(Deref(r1, p), key))))
        /\ UNCHANGED r1

\* child := p.NKC(key)
CallNKC ==
    \E p \in Pointers(r1), key \in NodeKeys :
        LET r == NodeNKC(Deref(r1, p), key) IN
        /\ Bounded(r1, AssignAt(r1, p, r.node))
        /\ r1' = AssignAt(r1, p, r.node)
        /\ last' = Called("NKC", p, key, 0, VNull, r1,
                          Res(VNull, FALSE, NoError, ChildPath(p, r.child)))

NodeNext ==
    /\ \/ CallAtIndex \/ CallAtKey \/ CallAppend \/ CallSetIndex
       \/ CallSetKey \/ CallNI \/ CallNK \/ CallNKC
    /\ UNCHANGED <<om, input, doc, mode, phase, enc, r2>>

SpecNode == NodeInit /\ [][NodeNext]_vars

-----------------------------------------------------------------------------
\* The Node the last call was made on, before and after the call.
RecvBefore == Deref(last.old, last.recv)
RecvAfter == Deref(r1, last.recv)

\* c1 is c0 with the Value of the child at place i (from 1) set to value: the
\* child keeps its comments, the keys keep their order, and every other child
\* is as it was.
OnlyValueSet(c0, c1, i, value) ==
    /\ c1.Cm = c0.Cm
    /\ c1.Value.k = c0.Value.k
    /\ NodeLen(c1) = NodeLen(c0)
    /\ c0.Value.k = "om" =>
          c1.Value.Keys = c0.Value.Keys /\ DOMAIN c1.Value.Map = DOMAIN c0.Value.Map
    /\ \A j \in 1..NodeLen(c0) :
          j # i => ElemAt(c1.Value, j - 1) = ElemAt(c0.Value, j - 1)
    /\ ElemAt(c1.Value, i - 1) = [ElemAt(c0.Value, i - 1) EXCEPT !.Value = value]

\* Nothing outside the Node the call was made on has changed.
RestUnchanged == r1 = AssignAt(last.old, last.recv, RecvAfter)

\* The last call was SetKey on an object that had the key.
SetExistingKey ==
    /\ last.op = "SetKey" /\ last.res.err = NoError
    /\ RecvBefore.Value.k = "om" /\ last.key \in DOMAIN RecvBefore.Value.Map

(* C13: Node.SetKey on an existing key and Node.SetIndex on an existing index *)
(* replace only the Value of the targeted child Node: the child's four        *)
(* comment slots, the order of the keys, and the values and comments of every *)
(* sibling Node are unchanged.                                                *)
C13_SetReplacesValueOnly ==
    /\ last.op = "SetIndex" /\ last.res.err = NoError =>
          OnlyValueSet(RecvBefore, RecvAfter, last.index + 1, last.value) /\ RestUnchanged
    /\ SetExistingKey =>
          /\ OnlyValueSet(RecvBefore, RecvAfter, IndexOf(RecvBefore.Value.Keys, last.key), last.value)
          /\ RestUnchanged

\* SetKey("b", "x") on the tree of TestNode4: b has lost its object and kept
\* its three comments, a is as it was.
C13_Witness ==
    /\ SetExistingKey /\ last.old = TreeObject /\ last.recv = <<>>
    /\ last.key = "b" /\ last.value = VStr(<<B.x>>)
    /\ r1.Value.Map["b"] = Node(VStr(<<B.x>>), TreeObject.Value.Map["b"].Cm)
    /\ r1.Value.Map["b"].Cm.Key = CmBlock
    /\ r1.Value.Map["a"] = TreeObject.Value.Map["a"]

-----------------------------------------------------------------------------
\* Every OrderedMap of the tree has each key of its Map once in Keys, and no
\* other key.
RECURSIVE KeysMatchMaps(_)
KeysMatchMaps(node) ==
    /\ node.Value.k = "om" =>
          NoDup(node.Value.Keys) /\ Range(node.Value.Keys) = DOMAIN node.Value.Map
    /\ \A i \in NodePlaces(node) : KeysMatchMaps(ElemAt(node.Value, i - 1))

\* The last call was a SetKey that returned no error.
SetKeyDone == last.op = "SetKey" /\ last.res.err = NoError

\* The keys of the Node called on, before the call.
KeysBefore == IF RecvBefore.Value.k = "om" THEN RecvBefore.Value.Keys ELSE <<>>

\* The value SetKey replaced; nil for a new key.
ValueBefore ==
    IF last.key \in Range(KeysBefore)
    THEN RecvBefore.Value.Map[last.key].Value ELSE VNull

\* After SetKey the key is in Keys and in Map, a new key last and an old key
\* where it was, AtKey returns the value, and the call told whether the key
\* was there.
SetKeyStored ==
    SetKeyDone =>
        /\ RecvAfter.Value.k = "om"
        /\ last.key \in DOMAIN RecvAfter.Value.Map
        /\ RecvAfter.Value.Keys =
              IF last.key \in Range(KeysBefore) THEN KeysBefore
              ELSE Append(KeysBefore, last.key)
        /\ NodeAtKey(RecvAfter, last.key) =
              [value |-> last.value, found |-> TRUE, err |-> NoError]
        /\ last.res.found = (last.key \in Range(KeysBefore))

(* C14: after Node.SetKey(k, v) succeeds on a Node holding nil or an object, *)
(* k is in the key sequence and in the mapping of the Node's OrderedMap (a   *)
(* new key as the last key, an existing key at its old position), AtKey(k)   *)
(* returns v, and the call reports the previous value and whether k already  *)
(* existed; every OrderedMap of the tree keeps its keys and its mapping in   *)
(* 1:1 correspondence after any sequence of SetKey, NKC and SetIndex calls.  *)
C14_SetKeyStoresKey ==
    /\ KeysMatchMaps(r1)
    /\ SetKeyStored
    /\ SetKeyDone => last.res.value = ValueBefore

-----------------------------------------------------------------------------
\* The last call was NKC on a Node that holds kind k in kinds.
NKCOn(kinds) ==
    last.op = "NKC" /\ last.recv # NilPath /\ RecvBefore.Value.k \in kinds

-----------------------------------------------------------------------------
\* The last call was op, made on a nil *Node.
OnNil(ops) == last.op \in ops /\ last.recv = NilPath

\* Every accessor and editor called on a nil Node returns an error.
C16_NilNodeAlwaysError ==
    OnNil({"AtIndex", "AtKey", "SetIndex", "SetKey", "Append"}) =>
        last.res.err # NoError /\ r1 = last.old

(* C16: AtIndex, SetIndex, SetKey and Append called on a nil Node return the *)
(* error "Node is nil" and change nothing; AtKey called on a nil Node        *)
(* returns no value, found false and no error; none of them faults.          *)
C16_NilNodeErrors ==
    /\ OnNil({"AtIndex", "SetIndex", "SetKey", "Append"}) =>
          /\ last.res.err = ErrNodeIsNil
          /\ last.res.value = VNull /\ ~last.res.found
          /\ r1 = last.old
    /\ OnNil({"AtKey"}) =>
          /\ last.res = Res(VNull, FALSE, NoError, NilPath)
          /\ r1 = last.old

\* node.NK("a").SetKey("b", "x") on a tree with no key a, as in TestNode4:
\* SetKey has returned the error.
C16_Witness ==
    /\ OnNil({"SetKey"}) /\ last.res.err = ErrNodeIsNil
    /\ last.old = TreeArray /\ r1 = TreeArray

-----------------------------------------------------------------------------
ScalarKinds == {"true", "false", "num", "str"}

\* The last call was made on a Node whose value has the wrong kind for it.
WrongKind ==
    /\ last.recv # NilPath
    /\ \/ last.op \in {"SetKey", "AtKey"} /\ RecvBefore.Value.k \in ScalarKinds \cup {"arr"}
       \/ last.op = "Append" /\ RecvBefore.Value.k \in ScalarKinds \cup {"om"}
       \/ last.op \in {"SetIndex", "AtIndex"} /\ RecvBefore.Value.k \in ScalarKinds

(* C17: AtIndex, AtKey, SetIndex, SetKey and Append called on a Node whose   *)
(* value has the wrong kind for the call (SetKey or AtKey on an array or a   *)
(* scalar, Append on an object or a scalar, SetIndex or AtIndex on a scalar) *)
(* return an error that names the type of the value, and the Node's value,   *)
(* like the rest of the tree, is left as it was.                             *)
C17_WrongKindError ==
    WrongKind =>
        /\ last.res.err.msg = "Unexpected value type: %v"
        /\ last.res.err.type =
              CASE RecvBefore.Value.k = "arr" -> "[]interface {}"
                [] RecvBefore.Value.k = "om" -> "*hjson.OrderedMap"
                [] RecvBefore.Value.k = "str" -> "string"
                [] RecvBefore.Value.k = "num" -> "float64"
                [] OTHER -> "bool"
        /\ last.res.value = VNull /\ ~last.res.found
        /\ RecvAfter = RecvBefore
        /\ r1 = last.old

\* node.SetKey("a", "x") on a slice, as in TestDeclareNodeSlice.
C17_Witness ==
    /\ WrongKind /\ last.op = "SetKey" /\ last.recv = <<>>
    /\ last.old = TreeArray /\ r1 = TreeArray
    /\ last.res.err = [msg |-> "Unexpected value type: %v", type |-> "[]interface {}"]

-----------------------------------------------------------------------------
(* Documents that are not well formed: bytes after the root value, a         *)
(* container that is never closed, a block comment that is never closed      *)
(* (hjson_test.go: the fail*_test documents are given to Unmarshal, which    *)
(* must return an error).                                                    *)

\* What a container of these documents may hold.
TailInner ==
    {VNum(<<B.d1>>), VStr(<<B.x>>), VObj(<<>>, <<>>), VArr(<<>>),
     VObj(<<<<B.a>>>>, <<VNum(<<B.d1>>)>>), VArr(<<VNum(<<B.d1>>)>>)}

TailTrees ==
    DocScalars
      \cup {VObj(<<>>, <<>>), VArr(<<>>)}
      \cup {VObj(<<<<B.b>>>>, <<t>>) : t \in TailInner}
      \cup {VObj(<<<<B.b>>, <<B.a>>>>, <<t, VNum(<<B.d2>>)>>) : t \in TailInner}
      \cup {VArr(<<t>>) : t \in TailInner}

\* White space and comments put after a document.
TailGaps ==
    {<<>>, <<B.sp>>, <<B.lf>>, <<B.sp, B.hash, B.x, B.lf>>,
     <<B.lf, B.slash, B.star, B.x, B.star, B.slash>>}

\* Bytes that are neither white space nor part of a comment.
TailJunk ==
    {<<B.x>>, <<B.d1>>, <<B.dq, B.x, B.dq>>, <<B.rbrace>>, <<B.rbrack>>,
     <<B.lbrace>>, <<B.lbrack>>}

\* What follows the opener of a block comment that is never closed.
OpenComments == {<<>>, <<B.sp, B.x>>, <<B.star, B.lf, B.x>>}

\* The most closers taken off the end of a document.
MaxCut == 2

\* text without its last n closers and the white space around them.
RECURSIVE CutClosers(_, _)
CutClosers(text, n) ==
    IF text = <<>> THEN text
    ELSE LET c == text[Len(text)]
             front == SubSeq(text, 1, Len(text) - 1)
         IN IF IsGoSpace(c) THEN CutClosers(front, n)
            ELSE IF c \in {B.rbrace, B.rbrack} /\ n > 0 THEN CutClosers(front, n - 1)
            ELSE text

\* The openers of text that are not closed, outermost first.  (No string of
\* these documents holds a brace or a bracket.)
RECURSIVE OpenAt(_, _, _)
OpenAt(text, i, open) ==
    IF i > Len(text) THEN open
    ELSE IF text[i] \in {B.lbrace, B.lbrack} THEN OpenAt(text, i + 1, Append(open, text[i]))
    ELSE IF text[i] \in {B.rbrace, B.rbrack} /\ open # <<>>
    THEN OpenAt(text, i + 1, SubSeq(open, 1, Len(open) - 1))
    ELSE OpenAt(text, i + 1, open)

Unclosed(text) == OpenAt(text, 1, <<>>)

TailForms == {"trailing", "unclosed", "comment"}

\* The text given to Unmarshal.
TailText(t, m) ==
    CASE m.form = "trailing" -> Render(t, m.style) \o m.gap \o m.junk
      [] m.form = "unclosed" -> CutClosers(Render(t, m.style), m.cut) \o m.gap
      [] OTHER -> Render(t, m.style) \o m.gap \o <<B.slash, B.star>> \o m.junk

TailModes ==
    [form : {"trailing"}, style : DocStyles, gap : TailGaps, junk : TailJunk, cut : {0}]
      \cup [form : {"unclosed"}, style : DocStyles, gap : {<<>>, <<B.lf>>},
            junk : {<<>>}, cut : 1..MaxCut]
      \cup [form : {"comment"}, style : DocStyles, gap : {<<>>, <<B.sp>>, <<B.lf>>},
            junk : OpenComments, cut : {0}]

TailInit ==
    /\ om = NewOrderedMap /\ last = NoCall
    /\ input \in TailTrees
    /\ mode \in TailModes
    /\ mode.style \in StylesOf(input)
    /\ doc = TailText(input, mode)
    /\ mode.form = "unclosed" => Unclosed(doc) # <<>>
    /\ phase = "start"
    /\ r1 = Idle /\ enc = Idle /\ r2 = Idle

\* err := Unmarshal(doc, &v)
TailDecode ==
    /\ phase = "start"
    /\ r1' = Unmarshal(doc, "iface")
    /\ phase' = "decoded"
    /\ UNCHANGED <<om, last, input, doc, mode, enc, r2>>

TailNext == TailDecode

SpecTail == TailInit /\ [][TailNext]_vars

-----------------------------------------------------------------------------
\* The text ends with a closer or a closing quote: what follows it is not
\* part of the value.  A value written without quotes runs to the end of its
\* line.
Delimited(text) == text # <<>> /\ text[Len(text)] \in {B.rbrace, B.rbrack, B.dq}

\* The document is a complete root value, white space and comments, and then
\* bytes that are neither.
HasTrailingBytes ==
    /\ mode.form = "trailing"
    /\ HasLineFeed(mode.gap) \/ Delimited(Render(input, mode.style))

(* C18: for every root form (object in braces, array, object without braces, *)
(* single value), if a byte that is neither white space nor part of a        *)
(* comment remains in the input after the complete root value, decode        *)
(* returns a syntax error and no value.                                      *)
C18_TrailingBytesRejected ==
    phase = "decoded" /\ HasTrailingBytes => ~r1.ok /\ r1.v = VNull

\* The error readObject and readArray return at the end of the input.
EndOfInput(opener) ==
    IF opener = B.lbrace
    THEN "End of input while parsing an object (did you forget a closing '}'?)"
    ELSE "End of input while parsing an array (did you forget a closing ']'?)"

(* C19: for every input in which a '{' or '[' is opened and never closed,    *)
(* decode returns an end-of-input error that names the missing closer,       *)
(* whether the container is the root or inside a root object without braces. *)
C19_UnclosedRejected ==
    phase = "decoded" /\ mode.form = "unclosed" =>
        ~r1.ok /\ r1.msg = EndOfInput(Unclosed(doc)[Len(Unclosed(doc))])

(* C20: an input with a block comment that is opened with /* and never       *)
(* closed is rejected by decode with a syntax error.                         *)
C20_OpenCommentRejected ==
    phase = "decoded" /\ mode.form = "comment" => ~r1.ok /\ r1.msg # ""

-----------------------------------------------------------------------------
(* The destination of Unmarshal (encode_test.go, UnmarshalWithOptions): what *)
(* v points to before the call and after it.  The destinations are those of  *)
(* DestType, and                                                             *)
(*   "om"   v is a *OrderedMap: what it points to is an object value         *)
(*   "pom"  v is a **OrderedMap: what it points to is a pointer, PtrTo       *)

\* A *OrderedMap: at is the address (0 for nil), to the map it points to.
PtrTo(at, to) == [k |-> "ptr", at |-> at, to |-> to]
NilPtr == PtrTo(0, VNull)

\* The address of the OrderedMap that UnmarshalWithOptions allocates.
FreshAt == 2

\* json.Decoder.Decode into a map that exists: the members are added to it.
MapMerge(old, new) ==
    VMap([key \in Range(old.ks) \cup Range(new.ks) |->
            IF key \in Range(new.ks) THEN new.a[IndexOf(new.ks, key)]
            ELSE old.a[IndexOf(old.ks, key)]])

\* UnmarshalWithOptions: the destination when orderedUnmarshal is called.
BeforeParse(dest, old) ==
    IF dest = "pom" THEN PtrTo(FreshAt, VObj(<<>>, <<>>)) ELSE old

\* UnmarshalWithOptions: the destination after a parse that returned v.
AfterParse(dest, pre, v) ==
    CASE dest \in {"om", "pom"} ->
           IF v.k # "obj" THEN pre
           ELSE IF dest = "om" THEN v ELSE PtrTo(pre.at, v)
      [] ~DestTakes(dest, v.k) -> pre
      [] dest = "string" -> IF v.k = "null" THEN pre ELSE v
      [] dest = "map" -> IF v.k = "null" THEN VMap(<<>>)
                         ELSE MapMerge(pre, ToInterface(v))
      [] OTHER -> ToInterface(v)

\* UnmarshalWithOptions(data, v, options) where v points to old:
\* [ok, msg, syntax, dst]; syntax tells that the parser returned the error,
\* dst is what v points to when the call returns.
UnmarshalInto(data, dest, old) ==
    LET isOM == dest \in {"om", "pom"}
        pre == BeforeParse(dest, old)
        r == RootValue(data, POpt(DestType(dest), ~isOM, FALSE))
        s == Store(IF isOM THEN "om" ELSE dest, r)
    IN [ok |-> s.ok, msg |-> s.msg, syntax |-> ~r.ok,
        dst |-> IF r.ok THEN AfterParse(dest, pre, r.v) ELSE pre]

DestTrees ==
    {VNull, VStr(<<B.x>>), VArr(<<VNum(<<B.d1>>)>>), VObj(<<>>, <<>>),
     VObj(<<<<B.b>>>>, <<VNum(<<B.d1>>)>>),
     VObj(<<<<B.b>>, <<B.a>>>>, <<VArr(<<>>), VNum(<<B.d2>>)>>)}

\* What the destination holds before the call.
DestBefore(dest) ==
    CASE dest = "iface" -> {VNull, VStr(<<B.x>>)}
      [] dest = "string" -> {VStr(<<>>), VStr(<<B.x>>)}
      [] dest = "map" -> {VMap(<<>>), VMap([key \in {<<B.a>>} |-> VBool(TRUE)])}
      [] dest = "slice" -> {VArr(<<>>), VArr(<<VBool(TRUE)>>)}
      [] dest = "om" -> {VObj(<<>>, <<>>), VObj(<<<<B.a>>>>, <<VBool(TRUE)>>)}
      [] OTHER -> {NilPtr, PtrTo(1, VObj(<<>>, <<>>)),
                   PtrTo(1, VObj(<<<<B.a>>>>, <<VBool(TRUE)>>))}

Dests == {"iface", "string", "map", "slice", "om", "pom"}

\* The documents: well formed, or with a byte after the root value, or with
\* the last closer missing.
DestModes ==
    [form : {"whole"}, style : DocStyles, gap : {<<>>}, junk : {<<>>}, cut : {0}]
      \cup {m \in TailModes :
              /\ m.form # "comment"
              /\ m.gap = <<B.lf>>
              /\ m.junk \in {<<>>, <<B.rbrace>>}
              /\ m.cut <= 1}

DestText(t, m) == IF m.form = "whole" THEN Render(t, m.style) ELSE TailText(t, m)

\* mode is the document's form and the destination; input is what the
\* destination holds.
DestInit ==
    /\ om = NewOrderedMap /\ last = NoCall
    /\ \E t \in DestTrees, m \in DestModes, dest \in Dests :
         /\ m.style \in StylesOf(t)
         /\ mode = [form |-> m.form, dest |-> dest]
         /\ doc = DestText(t, m)
         /\ input \in DestBefore(dest)
    /\ phase = "start"
    /\ r1 = Idle /\ enc = Idle /\ r2 = Idle

\* err := Unmarshal(doc, &v)
DestDecode ==
    /\ phase = "start"
    /\ r1' = UnmarshalInto(doc, mode.dest, input)
    /\ phase' = "decoded"
    /\ UNCHANGED <<om, last, input, doc, mode, enc, r2>>

DestNext == DestDecode

SpecDest == DestInit /\ [][DestNext]_vars

(* C21: when decode fails with a syntax error, the destination given to      *)
(* Unmarshal is left as it was before the call, for every destination type,  *)
(* *OrderedMap and **OrderedMap included.                                    *)
C21_DestinationKept ==
    phase = "decoded" /\ r1.syntax => r1.dst = input

\* The same for every destination but **OrderedMap.
DestinationKeptButPom ==
    phase = "decoded" /\ r1.syntax /\ mode.dest # "pom" => r1.dst = input

-----------------------------------------------------------------------------
(* orderedmap.go: calls with any index.  A call that indexes or slices Keys  *)
(* out of range panics; the program ends there, with what the call had       *)
(* stored before.                                                            *)

\* How far outside 0..Len() an index may be.
IndexSlack == 2

IndexesAround(c) == (0 - IndexSlack)..(OMLen(c) + IndexSlack)

\* OrderedMap.AtIndex: c.Keys[index] panics out of range.
AtIndexAny(c, index) ==
    IF index < 0 \/ index >= Len(c.Keys)
    THEN [om |-> c, value |-> NoValue, found |-> FALSE, fault |-> TRUE]
    ELSE [om |-> c, value |-> c.Map[c.Keys[index + 1]], found |-> TRUE, fault |-> FALSE]

\* OrderedMap.Insert: the value is stored and the lengths are compared
\* before Keys is sliced; c.Keys[index:] panics for index < 0 and for
\* index > len(c.Keys).
InsertAny(c, index, key, value) ==
    LET m == MapSet(c.Map, key, value) IN
    IF Cardinality(DOMAIN m) = Len(c.Keys)
    THEN [om |-> [Keys |-> c.Keys, Map |-> m], value |-> NoValue, found |-> TRUE,
          fault |-> FALSE]
    ELSE IF index < 0 \/ index > Len(c.Keys)
    THEN [om |-> [Keys |-> c.Keys, Map |-> m], value |-> NoValue, found |-> FALSE,
          fault |-> TRUE]
    ELSE [om |-> Insert(c, index, key, value).om, value |-> NoValue, found |-> FALSE,
          fault |-> FALSE]

\* OrderedMap.DeleteIndex: c.Keys[index] panics out of range.
DeleteIndexAny(c, index) ==
    IF index < 0 \/ index >= Len(c.Keys)
    THEN [om |-> c, value |-> NoValue, found |-> FALSE, fault |-> TRUE]
    ELSE [om |-> DeleteIndex(c, index), value |-> NoValue, found |-> TRUE, fault |-> FALSE]

RangeCall(op, index, key, old, r) ==
    [op |-> op, index |-> index, key |-> key, value |-> r.value, old |-> old,
     found |-> r.found, fault |-> r.fault]

NoRangeCall ==
    [op |-> "none", index |-> 0, key |-> "", value |-> NoValue,
     old |-> NewOrderedMap, found |-> FALSE, fault |-> FALSE]

RangeInit == om = NewOrderedMap /\ last = NoRangeCall /\ RunIdle

\* v := om.AtIndex(i)
RangeAtIndex ==
    \E i \in IndexesAround(om) :
        LET r == AtIndexAny(om, i) IN
        /\ om' = r.om
        /\ last' = RangeCall("AtIndex", i, "", om, r)

\* om.Insert(i, k, v)
RangeInsert ==
    \E i \in IndexesAround(om), k \in OMKeys, v \in OMVals :
        LET r == InsertAny(om, i, k, v) IN
        /\ om' = r.om
        /\ last' = RangeCall("Insert", i, k, om, r)

\* om.DeleteIndex(i)
RangeDeleteIndex ==
    \E i \in IndexesAround(om) :
        LET r == DeleteIndexAny(om, i) IN
        /\ om' = r.om
        /\ last' = RangeCall("DeleteIndex", i, "", om, r)

RangeNext ==
    /\ ~last.fault
    /\ RangeAtIndex \/ RangeInsert \/ RangeDeleteIndex
    /\ UNCHANGED runVars

SpecRange == RangeInit /\ [][RangeNext]_vars

\* The index of the last call is outside what the operation takes.
OutOfRange ==
    \/ last.op \in {"AtIndex", "DeleteIndex"}
         /\ (last.index < 0 \/ last.index >= OMLen(last.old))
    \/ last.op = "Insert" /\ (last.index < 0 \/ last.index > OMLen(last.old))

(* C22: AtIndex(i) and DeleteIndex(i) fault on every call with i < 0 or      *)
(* i >= Len(), and Insert(i, k, v) faults on every call with i < 0 or        *)
(* i > Len(), for any key k.                                                 *)
C22_OutOfRangeFaults == OutOfRange => last.fault

\* The same, but for an Insert of a key that the map holds already.
OutOfRangeFaultsForNewKey ==
    OutOfRange /\ ~(last.op = "Insert" /\ last.key \in DOMAIN last.old.Map)
        => last.fault

\* No call faults within the range.
InRangeRuns == last.fault => OutOfRange

-----------------------------------------------------------------------------
(* A float64 through Marshal (encode.go, str, case reflect.Float64).         *)

\* The largest decimal exponent, and the most digits, of the floats written.
MaxNumExp == 8
MaxNumDigits == 2

NumDigitBytes == {B.d1, B.d2, B.d5}

\* +Inf, -Inf and NaN.
NonFinite == {<<0>>, <<1>>, <<2>>}

\* Zero and negative zero.
Zeros == {<<0, 0>>, <<1, 0>>}

\* Finite floats other than zero: 0.digits * 10^e, the last digit not 0.
FiniteFloats ==
    {<<sign, e>> \o ds :
        sign \in {0, 1}, e \in (0 - MaxNumExp)..MaxNumExp,
        ds \in UNION {[1..n -> NumDigitBytes] : n \in 1..MaxNumDigits}}

NumInputs == NonFinite \cup Zeros \cup FiniteFloats

NumInit ==
    /\ om = NewOrderedMap /\ last = NoCall
    /\ input \in NumInputs
    /\ mode = "root" /\ phase = "start"
    /\ doc = <<>> /\ r1 = Idle /\ enc = Idle /\ r2 = Idle

\* buf, err := Marshal(input)
NumMarshal ==
    /\ phase = "start"
    /\ enc' = Marshal(VNum(input))
    /\ doc' = enc'.out
    /\ phase' = "encoded"
    /\ UNCHANGED <<om, last, input, mode, r1, r2>>

NumNext == NumMarshal

SpecNum == NumInit /\ [][NumNext]_vars

\* text is the shorter of the two texts, the fixed-point one when they are
\* equally long, and holds no upper case exponent marker.
ShorterOf(text, fixed, exp) ==
    /\ text \in {fixed, exp}
    /\ Len(text) <= Len(fixed) /\ Len(text) <= Len(exp)
    /\ Len(fixed) = Len(exp) => text = fixed
    /\ B.uE \notin Range(text)

(* C23: Marshal of a floating-point value writes 0 for negative zero, null   *)
(* for NaN and for positive or negative infinity, and for every other finite *)
(* value the shorter of its fixed-point text and its exponential text, the   *)
(* fixed-point text when both have the same length, with the exponent marker *)
(* in lower case.                                                            *)
C23_FloatText ==
    phase = "encoded" =>
        /\ enc.ok
        /\ input \in Zeros => enc.out = <<B.d0>>
        /\ input \in NonFinite => enc.out = TxtNull
        /\ input \in FiniteFloats =>
               ShorterOf(enc.out, FormatF(input), FormatE(input))

\* 10000 is written 10000, not 1e+04: both are five bytes long.
C23_Witness ==
    /\ phase = "encoded"
    /\ input = <<0, 5, B.d1>>
    /\ FormatE(input) = <<B.d1, B.e, B.plus, B.d0, B.d4>>
    /\ enc.out = <<B.d1, B.d0, B.d0, B.d0, B.d0>>

-----------------------------------------------------------------------------
(* hjsonParser.rootValue, step by step.  last is the parser's cursor (at,    *)
(* ch); r1 is what the attempt to read a root object without braces          *)
(* returned, r2 what the attempt to read a single value returned, enc what   *)
(* rootValue returns.  phase is the place in the function:                   *)
(*   "start"   before p.white()                                              *)
(*   "braced"  before the case '{' or the case '['                           *)
(*   "object"  before the object without braces is read                      *)
(*   "single"  after p.resetAt(), before the single value is read            *)
(*   "done"    returned                                                      *)

RootOpt == POpt(<<>>, TRUE, FALSE)

RootModes ==
    [form : {"whole"}, style : DocStyles, gap : {<<>>}, junk : {<<>>}, cut : {0}]
      \cup TailModes

\* A key on a line of its own, and a key without a value.
RootOddTexts ==
    {<<B.x, B.lf, B.x>>, <<B.x, B.colon>>, <<B.x, B.sp, B.x, B.colon, B.d1>>,
     <<B.dq, B.x>>, <<B.colon>>, <<>>}

RootInit ==
    /\ om = NewOrderedMap
    /\ \/ /\ input \in TailTrees
          /\ mode \in RootModes
          /\ mode.style \in StylesOf(input)
          /\ doc = DestText(input, mode)
       \/ /\ input = VNull
          /\ mode = [form |-> "odd", style |-> "hjson", gap |-> <<>>, junk |-> <<>>,
                     cut |-> 0]
          /\ doc \in RootOddTexts
    /\ last = ResetAt
    /\ phase = "start"
    /\ r1 = Idle /\ enc = Idle /\ r2 = Idle

\* p.white() and the switch on p.ch
RootWhite ==
    /\ phase = "start"
    /\ last' = White(doc, last)
    /\ phase' = IF last'.ch \in {B.lbrace, B.lbrack} THEN "braced" ELSE "object"
    /\ UNCHANGED <<om, input, doc, mode, r1, enc, r2>>

\* return p.checkTrailing(p.readObject(false, dest)), or the same of readArray
RootBraced ==
    /\ phase = "braced"
    /\ enc' = CheckTrailing(doc, IF last.ch = B.lbrace
                                 THEN ReadObject(doc, last, RootOpt, FALSE)
                                 ELSE ReadArray(doc, last, RootOpt))
    /\ last' = enc'.c
    /\ phase' = "done"
    /\ UNCHANGED <<om, input, doc, mode, r1, r2>>

\* res, err := p.checkTrailing(p.readObject(true, dest)); return it if
\* err == nil, p.resetAt() if not
RootObject ==
    /\ phase = "object"
    /\ r1' = CheckTrailing(doc, ReadObject(doc, last, RootOpt, TRUE))
    /\ IF r1'.ok
       THEN enc' = r1' /\ last' = r1'.c /\ phase' = "done"
       ELSE enc' = enc /\ last' = ResetAt /\ phase' = "single"
    /\ UNCHANGED <<om, input, doc, mode, r2>>

\* res2, err2 := p.checkTrailing(p.readValue(dest)); return it if
\* err2 == nil, return res, err if not
RootValueOnly ==
    /\ phase = "single"
    /\ r2' = CheckTrailing(doc, ReadValue(doc, last, RootOpt))
    /\ enc' = RootSingle(r1, r2')
    /\ last' = r2'.c
    /\ phase' = "done"
    /\ UNCHANGED <<om, input, doc, mode, r1>>

RootNext == RootWhite \/ RootBraced \/ RootObject \/ RootValueOnly

SpecRoot == RootInit /\ [][RootNext]_vars

\* The first byte that is neither white space nor part of a comment.
FirstSignificant == White(doc, ResetAt).ch

(* C24: for input whose first significant byte is neither '{' nor '[',       *)
(* decode first reads the whole input as an object without braces; only if   *)
(* that attempt fails does it reset the cursor to offset 0 and read the      *)
(* whole input as a single value; if the second attempt fails too, the error *)
(* returned is the one of the object attempt.                                *)
C24_ObjectThenSingleValue ==
    /\ phase = "single" =>
           /\ r1 # Idle /\ ~r1.ok
           /\ r2 = Idle
           /\ last.at = 0
    /\ phase = "done" /\ FirstSignificant \notin {B.lbrace, B.lbrack} =>
           /\ r1 # Idle
           /\ r1.ok => r2 = Idle /\ enc = r1
           /\ ~r1.ok => r2 # Idle
           /\ ~r1.ok /\ r2.ok => enc = r2
           /\ ~r1.ok /\ ~r2.ok => ~enc.ok /\ enc.msg = r1.msg /\ enc.c = r1.c

\* What the steps return is what rootValue returns.
RootStepsAgree ==
    phase = "done" =>
        /\ enc.ok = RootValue(doc, RootOpt).ok
        /\ enc.v = RootValue(doc, RootOpt).v
        /\ enc.msg = RootValue(doc, RootOpt).msg

\* x, line feed, x: no object (no ':' after the key), no single value (a
\* second x follows the first); the error is that of the object.
C24_Witness ==
    /\ phase = "done"
    /\ doc = <<B.x, B.lf, B.x>>
    /\ ~r1.ok /\ r2 # Idle /\ ~r2.ok
    /\ r2.msg = "Syntax error, found trailing characters"
    /\ r1.msg # r2.msg
    /\ enc.msg = r1.msg

-----------------------------------------------------------------------------
(* A value without quotes (decode.go, readTfnns).  doc is the text from the  *)
(* first byte of the value on: readValue has skipped white space and         *)
(* comments, and the byte is no quote, no '{' and no '['.                    *)

\* The longest text built from TfnnsAlphabet.
MaxTfnnsLen == 4

TfnnsAlphabet == {B.x, B.d1, B.sp, B.comma, B.hash, B.lf}

TfnnsSpecial ==
    {TxtTrue, TxtTrue \o <<B.comma, B.x>>, TxtTrue \o <<B.sp, B.x, B.comma>>,
     TxtNull \o <<B.sp, B.hash>>, TxtFalse \o <<B.rbrack>>, TxtNull \o <<B.x>>,
     <<B.minus, B.d1, B.dot, B.d5, B.rbrace>>, <<B.minus, B.x>>,
     <<B.d1, B.sp, B.slash, B.slash, B.x>>, <<B.d1, B.slash, B.star>>,
     <<B.x, B.slash, B.slash, B.lf>>, <<B.x, B.rbrace, B.cr, B.lf>>,
     <<B.d1, B.e, B.d2, B.sp, B.lf>>, <<B.d1, B.slash, B.d2, B.comma>>,
     <<B.rbrace, B.x>>, <<B.comma>>}

TfnnsTexts ==
    {t \in UNION {[1..n -> TfnnsAlphabet] : n \in 1..MaxTfnnsLen} :
        t[1] \notin {B.sp, B.lf, B.hash}}
      \cup TfnnsSpecial

TfnnsInit ==
    /\ om = NewOrderedMap /\ last = NoCall
    /\ doc \in TfnnsTexts
    /\ input = VNull /\ mode = "value" /\ phase = "start"
    /\ r1 = Idle /\ enc = Idle /\ r2 = Idle

\* p.next(); value, err := p.readTfnns(dest), dest being an interface{}
TfnnsRead ==
    /\ phase = "start"
    /\ r1' = ReadTfnns(doc, Next(doc, ResetAt), RootOpt)
    /\ phase' = "read"
    /\ UNCHANGED <<om, last, input, doc, mode, enc, r2>>

TfnnsNext == TfnnsRead

SpecTfnns == TfnnsInit /\ [][TfnnsNext]_vars

\* Position i of d is the end of a line or of the text.
EolAt(d, i) == i > Len(d) \/ d[i] \in {B.lf, B.cr}

\* Position i of d ends a line or holds ',', '}', ']' or opens a comment.
TerminatorAt(d, i) ==
    \/ EolAt(d, i)
    \/ d[i] \in {B.comma, B.rbrace, B.rbrack, B.hash}
    \/ (d[i] = B.slash /\ i < Len(d) /\ d[i + 1] \in {B.slash, B.star})

\* What text is: true, false or null on an exact match, a number if it
\* begins with '-' or a digit and is a number as a whole, a string if not.
Classify(text) ==
    LET t == TrimSpace(text) IN
    IF t = TxtTrue THEN VBool(TRUE)
    ELSE IF t = TxtFalse THEN VBool(FALSE)
    ELSE IF t = TxtNull THEN VNull
    ELSE IF (text[1] = B.minus \/ IsDigit(text[1])) /\ IsNumberText(text) THEN VNum(t)
    ELSE VStr(t)

\* The first terminator after the first byte.
FirstTerminator(d) ==
    CHOOSE i \in 2..(Len(d) + 1) :
        TerminatorAt(d, i) /\ \A j \in 2..(i - 1) : ~TerminatorAt(d, j)

\* A terminator at which the value ends: the end of the line, or one before
\* which the text is a keyword or a number.
EndsAt(d, i) ==
    TerminatorAt(d, i) /\ (EolAt(d, i) \/ Classify(SubSeq(d, 1, i - 1)).k # "str")

FirstEnd(d) ==
    CHOOSE i \in 2..(Len(d) + 1) : EndsAt(d, i) /\ \A j \in 2..(i - 1) : ~EndsAt(d, j)

\* readTfnns has read the value up to position i, which the cursor is at.
ReadUpTo(i) ==
    /\ r1.ok
    /\ r1.v = Classify(SubSeq(doc, 1, i - 1))
    /\ r1.c.ch = (IF i > Len(doc) THEN 0 ELSE doc[i])
    /\ i <= Len(doc) => r1.c.at = i

-----------------------------------------------------------------------------
(* A key without quotes (decode.go, readKeyname).  readObject calls          *)
(* p.white() before it reads a key, so the key starts at the first byte of   *)
(* doc that is no white space.                                               *)

\* The longest text built from KeyAlphabet.
MaxKeyLen == 4

KeyAlphabet == {B.x, B.a, B.sp, B.colon, B.comma, B.lbrace}

KeySpecial ==
    {<<B.x, B.lf, B.colon>>, <<B.x, B.tab, B.a, B.colon>>, <<B.x, B.rbrack, B.colon>>,
     <<B.x, B.hash, B.a, B.colon, B.d1>>, <<B.x, B.a, B.x, B.a, B.sp, B.sp, B.colon>>,
     <<B.sp, B.lf, B.x, B.a, B.colon, B.colon>>, <<B.rbrace>>, <<>>}

KeyTexts ==
    UNION {[1..n -> KeyAlphabet] : n \in 1..MaxKeyLen} \cup KeySpecial

KeyInit ==
    /\ om = NewOrderedMap /\ last = NoCall
    /\ doc \in KeyTexts
    /\ input = VNull /\ mode = "key" /\ phase = "start"
    /\ r1 = Idle /\ enc = Idle /\ r2 = Idle

\* p.white(); key, err := p.readKeyname()
KeyRead ==
    /\ phase = "start"
    /\ r1' = ReadKeyname(doc, White(doc, ResetAt))
    /\ phase' = "read"
    /\ UNCHANGED <<om, last, input, doc, mode, enc, r2>>

KeyNext == KeyRead

SpecKey == KeyInit /\ [][KeyNext]_vars

\* The first position of doc that holds no white space.
KeyStart ==
    CHOOSE i \in 1..(Len(doc) + 1) :
        /\ i <= Len(doc) => doc[i] > B.sp
        /\ \A j \in 1..(i - 1) : doc[j] <= B.sp

\* The first position from KeyStart on that holds one of { } [ ] , : or is
\* the end of the text.
KeyStop ==
    CHOOSE i \in KeyStart..(Len(doc) + 1) :
        /\ i <= Len(doc) => IsPunctuatorChar(doc[i])
        /\ \A j \in KeyStart..(i - 1) : ~IsPunctuatorChar(doc[j])

\* The bytes before the ':'.
KeyBefore == SubSeq(doc, KeyStart, KeyStop - 1)

HasSpace(s) == \E i \in 1..Len(s) : s[i] <= B.sp

\* s without the white space at its end.
RECURSIVE DropSpaceAtEnd(_)
DropSpaceAtEnd(s) ==
    IF s # <<>> /\ s[Len(s)] <= B.sp THEN DropSpaceAtEnd(SubSeq(s, 1, Len(s) - 1)) ELSE s

\* A ':' ends the key.
KeyHasColon == KeyStop <= Len(doc) /\ doc[KeyStop] = B.colon

\* The text starts with a quote: readKeyname reads a string.
KeyQuoted == KeyStart <= Len(doc) /\ doc[KeyStart] \in {B.dq, B.sq}

(* C26: reading a key without quotes returns an error whenever white space   *)
(* occurs before the ':' (inside the key or between the key and the ':'),    *)
(* whenever the key is empty, and whenever one of { } [ ] , : occurs where   *)
(* the key is expected; otherwise it returns exactly the bytes before the    *)
(* ':'.                                                                      *)
C26_NoSpaceBeforeColon ==
    phase = "read" /\ ~KeyQuoted =>
        IF HasSpace(KeyBefore) \/ KeyBefore = <<>> \/ ~KeyHasColon
        THEN ~r1.ok
        ELSE r1.ok /\ r1.v = VStr(KeyBefore)

(* C26, amended: an error is returned whenever white space occurs inside the *)
(* key, whenever the key is empty, whenever one of { } [ ] , comes before    *)
(* the ':' and when the input ends before a ':'; otherwise the key is the    *)
(* bytes before the ':' without the white space between the key and the ':', *)
(* and the cursor is at the ':'.                                             *)
C26_NoSpaceInsideKey ==
    phase = "read" /\ ~KeyQuoted =>
        IF HasSpace(DropSpaceAtEnd(KeyBefore)) \/ KeyBefore = <<>> \/ ~KeyHasColon
        THEN ~r1.ok /\ r1.msg # ""
        ELSE r1.ok /\ r1.v = VStr(DropSpaceAtEnd(KeyBefore)) /\ r1.c.at = KeyStop

\* "xa  :" is the key xa.
C26_Witness ==
    /\ phase = "read"
    /\ doc = <<B.x, B.a, B.x, B.a, B.sp, B.sp, B.colon>>
    /\ r1.ok /\ r1.v = VStr(<<B.x, B.a, B.x, B.a>>) /\ r1.c.ch = B.colon
    /\ ~ReadKeyname(<<B.x, B.sp, B.a, B.colon>>, White(<<B.x, B.sp, B.a, B.colon>>, ResetAt)).ok

-----------------------------------------------------------------------------
(* A ''' string (decode.go, readMLString).  input is how the text is laid    *)
(* out:                                                                      *)
(*   prefix  the bytes of the line in front of the opening '''               *)
(*   inline  the first line of the content follows the ''' on the same line  *)
(*   lines   the lines between the opening and the closing ''', each being k *)
(*           spaces and then s                                               *)

\* The most lines of a ''' string, and the most spaces a line starts with.
MaxMLLines == 2
MaxMLSpaces == 3

MLPrefixes ==
    {<<>>, <<B.sp, B.sp>>, <<B.a, B.colon>>, <<B.a, B.colon, B.sp>>,
     <<B.sp, B.a, B.colon, B.sp>>}

\* What a line holds after its spaces.
MLContents == {<<>>, <<B.x>>, <<B.x, B.sq, B.x>>, <<B.x, B.cr>>, <<B.x, B.sp>>}

MLLineSet == [k : 0..MaxMLSpaces, s : MLContents]

MLLayouts ==
    {l \in [prefix : MLPrefixes, inline : BOOLEAN,
            lines : UNION {[1..n -> MLLineSet] : n \in 1..MaxMLLines}] :
        l.inline => l.lines[1].k = 0 /\ l.lines[1].s # <<>>}

MLLineText(line) == Repeat(<<B.sp>>, line.k) \o line.s

MLText(l) ==
    l.prefix \o Quotes(3) \o (IF l.inline THEN <<>> ELSE <<B.lf>>)
        \o JoinWith([i \in 1..Len(l.lines) |-> MLLineText(l.lines[i])], <<B.lf>>)
        \o Quotes(3)

MLInit ==
    /\ om = NewOrderedMap /\ last = NoCall
    /\ input \in MLLayouts
    /\ doc = MLText(input)
    /\ mode = "ml" /\ phase = "start"
    /\ r1 = Idle /\ enc = Idle /\ r2 = Idle

\* err := Unmarshal(doc, &v)
MLDecode ==
    /\ phase = "start"
    /\ r1' = Unmarshal(doc, "iface")
    /\ phase' = "decoded"
    /\ UNCHANGED <<om, last, input, doc, mode, enc, r2>>

MLNext == MLDecode

SpecML == MLInit /\ [][MLNext]_vars

\* The string that was decoded: the root value, or the value of the key a.
MLDecoded ==
    IF ~r1.ok THEN [found |-> FALSE, s |-> <<>>]
    ELSE IF r1.v.k = "str" THEN [found |-> TRUE, s |-> r1.v.s]
    ELSE IF r1.v.k = "map" /\ r1.v.ks = <<<<B.a>>>> /\ r1.v.a[1].k = "str"
    THEN [found |-> TRUE, s |-> r1.v.a[1].s]
    ELSE [found |-> FALSE, s |-> <<>>]

\* The white space a text starts with.
RECURSIVE LeadingWhite(_)
LeadingWhite(s) ==
    IF s # <<>> /\ s[1] <= B.sp THEN 1 + LeadingWhite(Tail(s)) ELSE 0

Min(a, b) == IF a < b THEN a ELSE b

RECURSIVE WithoutCR(_)
WithoutCR(s) ==
    IF s = <<>> THEN s
    ELSE IF s[1] = B.cr THEN WithoutCR(Tail(s)) ELSE <<s[1]>> \o WithoutCR(Tail(s))

\* The line without n of the spaces it starts with, or without all of them
\* when it has fewer.
Unindented(line, n) == Repeat(<<B.sp>>, line.k - Min(line.k, n)) \o line.s

\* The lines, each without n spaces (but for a first line that follows the
\* opening quotes), joined by newlines.
MLJoined(l, n) ==
    JoinWith([i \in 1..Len(l.lines) |->
                IF i = 1 /\ l.inline THEN MLLineText(l.lines[i])
                ELSE Unindented(l.lines[i], n)], <<B.lf>>)

\* s without a newline at its end.
WithoutLastLF(s) ==
    IF s # <<>> /\ s[Len(s)] = B.lf THEN SubSeq(s, 1, Len(s) - 1) ELSE s

-----------------------------------------------------------------------------
\* The pointers, maps and slices among the calls of str that are open.
OpenRefs(stack, h) ==
    Cardinality({i \in 1..Len(stack) : IsRefKind(KindOf(h, stack[i][1]))})

\* The values of the m innermost open calls on a pointer, map or slice,
\* looked for from the call i outwards.
RECURSIVE TopRefs(_, _, _, _)
TopRefs(stack, h, i, m) ==
    IF m <= 0 \/ i = 0 THEN {}
    ELSE IF IsRefKind(KindOf(h, stack[i][1]))
         THEN {stack[i][1]} \cup TopRefs(stack, h, i - 1, m - 1)
         ELSE TopRefs(stack, h, i - 1, m)

\* The open ancestors that were entered beyond depthLimit.
EnteredBeyondLimit(stack, h) ==
    TopRefs(stack, h, Len(stack), OpenRefs(stack, h) - depthLimit)

(* C28: Marshal returns the circular-reference error only when the recursion  *)
(* is deeper than depthLimit and the pointer, map or slice str is called on   *)
(* is that of an open ancestor; parents holds exactly the open ancestors      *)
(* entered beyond depthLimit, each removed when its call returns, also on an  *)
(* error; a value that is only shared between siblings is never reported.     *)
C28_CircularOnlyForOpenAncestor ==
    /\ enc.parents = EnteredBeyondLimit(enc.stack, input)
    /\ enc.pDepth = OpenRefs(enc.stack, input) + (IF r1 = CircularError THEN 1 ELSE 0)
    /\ r1 = CircularError =>
          /\ last.op = "refused"
          /\ last.pDepth > depthLimit
          /\ IsRefKind(KindOf(input, last.value))
          /\ last.value \in EnteredBeyondLimit(last.stack, input)
    /\ ~input.closed => r1 # CircularError

\* Beyond depthLimit, str is in its second call on a pointer or slice that
\* both fields of a struct hold: the first call has returned.
C28_Witness ==
    /\ phase = "running"
    /\ Len(enc.stack) >= 2
    /\ KindOf(input, enc.stack[Len(enc.stack) - 1][1]) = "pair"
    /\ enc.stack[Len(enc.stack) - 1][2] = 3
    /\ enc.pDepth > depthLimit
    /\ Top(enc)[1] \in enc.parents


-----------------------------------------------------------------------------
(* The loops of the parser, one iteration to a step.  Each loop is entered   *)
(* in the state in which decoding a document reaches it first: rootValue     *)
(* calls white, then readObject or readArray on a brace or a bracket, else   *)
(* readObject without braces, which calls readKeyname, and, when that       *)
(* attempt fails, readValue from the start again, which calls readString or  *)
(* readTfnns.                                                                *)

MaxLoopLen == 3

NUL == 0

LoopAlphabet ==
    {NUL, B.sp, B.lf, B.x, B.sq, B.dq, B.colon, B.comma, B.lbrack, B.rbrack,
     B.lbrace, B.hash, B.slash, B.star}

\* Documents that reach the loops behind ''' and \u.
LoopSpecial ==
    {<<B.sq, B.sq, B.sq, B.x, B.sq, B.sq, B.sq>>,
     <<B.sp, B.sq, B.sq, B.sq, B.lf, B.sp, B.x, B.lf>>,
     <<B.sp, B.sq, B.sq, B.sq, B.sp, B.cr, B.lf, B.x>>,
     <<B.sq, B.sq, B.sq, B.sq, B.sq, B.x>>,
     <<B.dq, B.bslash, B.u, B.d0, B.d0, B.e, B.d9, B.dq>>,
     <<B.dq, B.bslash, B.u, B.d0, B.x>>,
     <<B.dq, B.bslash, B.u, B.d0>>,
     <<B.sq, B.bslash, B.n, NUL, B.sq>>,
     <<B.lbrace, B.x, B.colon, B.lbrack, B.d1, B.rbrack, B.rbrace>>,
     <<B.x, B.sp, B.x, B.colon, B.d1>>,
     <<B.slash, B.star, B.star, B.slash, B.d1, B.comma>>}

LoopTexts ==
    UNION {[1..n -> LoopAlphabet] : n \in 0..MaxLoopLen} \cup LoopSpecial

LoopNames ==
    {"white", "white.space", "white.line", "white.block",
     "readString", "readString.hex",
     "readMLString.indent", "readMLString.white", "readMLString.skipIndent",
     "readMLString", "readMLString.quotes",
     "readKeyname", "readTfnns", "readArray", "readObject"}

\* The loops that count without reading: the indent loop and the loop that
\* writes the quotes held back, both in readMLString.
CountingLoops == {"readMLString.indent", "readMLString.quotes"}

\* The locals of a loop: the cursor c, a counter n (i, indent, skip, triple,
\* space), a number k (exitCh, uffff, start, indent, chf), a text acc (res,
\* name, value), a flag (allowML, lastLf, withoutBraces) and ret, set when
\* the body has returned or broken out of the loop.
LoopState(c, n, k, acc, flag) ==
    [c |-> c, n |-> n, k |-> k, acc |-> acc, flag |-> flag, ret |-> FALSE]

Return(s, c) == [s EXCEPT !.c = c, !.ret = TRUE]

\* rootValue: the attempt to read the document as an object without braces.
ObjectAttempt(d) ==
    CheckTrailing(d, ReadObject(d, White(d, ResetAt), RootOpt, TRUE))

\* rootValue comes to p.resetAt() and readValue.
FallsBack(d) ==
    /\ White(d, ResetAt).ch \notin {B.lbrace, B.lbrack}
    /\ ~ObjectAttempt(d).ok

\* The document starts with ''' and readMLString is called with the cursor
\* behind it.
OpensML(d) ==
    LET c0 == White(d, ResetAt) IN
    c0.ch = B.sq /\ Next(d, c0).ch = B.sq /\ Next(d, Next(d, c0)).ch = B.sq

MLStart(d) == Next(d, Next(d, Next(d, White(d, ResetAt))))

\* readMLString: the state in which the main loop is entered.
MLMainEntry(d) ==
    LET c == MLStart(d)
        indent == MLIndent(d, c, 0)
        c1 == SkipToNewline(d, c)
        c2 == IF c1.ch = B.lf THEN SkipIndent(d, Next(d, c1), indent) ELSE c1
    IN LoopState(c2, 0, indent, <<>>, FALSE)

\* The for conditions.
LoopTest(loop, d, s) ==
    CASE loop = "white" -> s.c.ch > 0
      [] loop = "white.space" -> s.c.ch > 0 /\ s.c.ch <= B.sp
      [] loop = "white.line" -> s.c.ch > 0 /\ s.c.ch # B.lf
      [] loop = "white.block" ->
           s.c.ch > 0 /\ ~(s.c.ch = B.star /\ Peek(d, s.c, 0) = B.slash)
      [] loop = "readString" -> NextOk(d, s.c)
      [] loop = "readString.hex" -> s.n < 4
      [] loop = "readMLString.white" ->
           s.c.ch > 0 /\ s.c.ch <= B.sp /\ s.c.ch # B.lf
      [] loop = "readMLString.skipIndent" ->
           s.c.ch > 0 /\ s.c.ch <= B.sp /\ s.c.ch # B.lf /\ s.n > 0
      [] loop = "readMLString.quotes" -> s.n > 0
      [] loop \in {"readArray", "readObject"} -> s.c.ch > 0
      [] OTHER -> TRUE

\* white: the body of the outer loop.
WhiteBody(d, s) ==
    LET c1 == SkipSpace(d, s.c) IN
    IF c1.ch = B.hash \/ (c1.ch = B.slash /\ Peek(d, c1, 0) = B.slash)
    THEN [s EXCEPT !.c = SkipLine(d, c1)]
    ELSE IF c1.ch = B.slash /\ Peek(d, c1, 0) = B.star
    THEN LET c2 == SkipBlock(d, Next(d, Next(d, c1))) IN
         [s EXCEPT !.c = IF c2.ch > 0 THEN Next(d, Next(d, c2)) ELSE c2]
    ELSE Return(s, c1)

\* readString: the body of the loop, after the p.next() of its condition.
StringBody(d, s) ==
    LET c1 == Next(d, s.c)
        c2 == Next(d, c1)
    IN
    IF c1.ch = s.k
    THEN IF s.flag /\ s.k = B.sq /\ c2.ch = B.sq /\ s.acc = <<>>
         THEN Return(s, ReadMLString(d, Next(d, c2)).c)
         ELSE Return(s, c2)
    ELSE IF c1.ch = B.bslash
    THEN IF c2.ch = B.u
         THEN LET h == ReadHex4(d, c2, 0, 0) IN
              IF h.ok THEN [s EXCEPT !.c = h.c, !.acc = s.acc \o h.v.s]
              ELSE Return(s, h.c)
         ELSE IF c2.ch \in DOMAIN Escapee
         THEN [s EXCEPT !.c = c2, !.acc = Append(s.acc, Escapee[c2.ch])]
         ELSE Return(s, c2)
    ELSE IF c1.ch = B.lf \/ c1.ch = B.cr THEN Return(s, c1)
    ELSE [s EXCEPT !.c = c1, !.acc = Append(s.acc, c1.ch)]

\* readString: the body of the loop over the four hex digits.
HexBody(d, s) ==
    LET c1 == Next(d, s.c) IN
    IF HexVal(c1.ch) < 0 THEN Return(s, c1)
    ELSE [s EXCEPT !.c = c1, !.n = s.n + 1, !.k = s.k * 16 + HexVal(c1.ch)]

\* readMLString: the body of the loop that measures the indent.
IndentBody(d, s) ==
    LET ch == Peek(d, s.c, 0 - s.n - 5) IN
    IF ch = 0 \/ ch = B.lf THEN Return(s, s.c) ELSE [s EXCEPT !.n = s.n + 1]

\* readMLString: the body of the main loop; n is triple, k indent, flag
\* lastLf.
MLBody(d, s) ==
    IF s.c.ch = 0 THEN Return(s, s.c)
    ELSE IF s.c.ch = B.sq
    THEN IF s.n + 1 = 3 THEN Return([s EXCEPT !.n = 3], Next(d, s.c))
         ELSE [s EXCEPT !.n = s.n + 1, !.c = Next(d, s.c)]
    ELSE LET res1 == s.acc \o Quotes(s.n)
             lf1 == IF s.n > 0 THEN FALSE ELSE s.flag
         IN
         IF s.c.ch = B.lf
         THEN [s EXCEPT !.c = SkipIndent(d, Next(d, s.c), s.k),
                        !.acc = Append(res1, B.lf), !.n = 0, !.flag = TRUE]
         ELSE IF s.c.ch # B.cr
         THEN [s EXCEPT !.c = Next(d, s.c), !.acc = Append(res1, s.c.ch),
                        !.n = 0, !.flag = FALSE]
         ELSE [s EXCEPT !.c = Next(d, s.c), !.acc = res1, !.n = 0, !.flag = lf1]

\* readKeyname whose loop does not call p.next() behind white space.
KeynameBodySpaceStays(d, s) ==
    IF s.c.ch = B.colon \/ s.c.ch = 0 \/ (s.c.ch > B.sp /\ IsPunctuatorChar(s.c.ch))
    THEN Return(s, s.c)
    ELSE IF s.c.ch <= B.sp
    THEN [s EXCEPT !.n = IF s.n < 0 THEN Len(s.acc) ELSE s.n]
    ELSE [s EXCEPT !.c = Next(d, s.c), !.acc = Append(s.acc, s.c.ch)]

\* readKeyname: the body of the loop; n is space, k start.
KeynameBody(d, s) ==
    IF s.c.ch = B.colon
    THEN IF s.acc # <<>> /\ s.n >= 0 /\ s.n # Len(s.acc)
         THEN Return(s, [s.c EXCEPT !.at = s.k + s.n])
         ELSE Return(s, s.c)
    ELSE IF s.c.ch <= B.sp
    THEN IF s.c.ch = 0 THEN Return(s, s.c)
         ELSE [s EXCEPT !.c = Next(d, s.c),
                        !.n = IF s.n < 0 THEN Len(s.acc) ELSE s.n]
    ELSE IF IsPunctuatorChar(s.c.ch) THEN Return(s, s.c)
    ELSE [s EXCEPT !.c = Next(d, s.c), !.acc = Append(s.acc, s.c.ch)]

\* readTfnns: the body of the loop; k is chf.
TfnnsBody(d, s) ==
    LET c1 == Next(d, s.c) IN
    IF IsTerminator(d, c1) /\ Sniff(RootOpt, s.k, s.acc).hit THEN Return(s, c1)
    ELSE IF c1.ch = B.cr \/ c1.ch = B.lf \/ c1.ch = 0 THEN Return(s, c1)
    ELSE [s EXCEPT !.c = c1, !.acc = Append(s.acc, c1.ch)]

\* readArray and readObject: behind a value that ends at c, closed by the
\* byte close unless withoutBraces.
AfterValue(d, s, c, close) ==
    LET w == White(d, c)
        w1 == IF w.ch = B.comma THEN White(d, Next(d, w)) ELSE w
    IN
    IF w1.ch = close /\ ~s.flag THEN Return(s, Next(d, w1))
    ELSE [s EXCEPT !.c = White(d, w1)]

\* readArray: the body of the loop.
ArrayBody(d, s) ==
    LET r == ReadValue(d, s.c, RootOpt) IN
    IF ~r.ok THEN Return(s, r.c) ELSE AfterValue(d, s, r.c, B.rbrack)

\* readObject: the body of the loop; flag is withoutBraces.
ObjectBody(d, s) ==
    LET key == ReadKeyname(d, s.c)
        w == White(d, key.c)
        r == ReadValue(d, Next(d, w), RootOpt)
    IN
    IF ~key.ok THEN Return(s, key.c)
    ELSE IF w.ch # B.colon THEN Return(s, w)
    ELSE IF ~r.ok THEN Return(s, r.c)
    ELSE AfterValue(d, s, r.c, B.rbrace)

\* white: the outer loop, and the loops over spaces, a line comment and a
\* block comment, which only call p.next().
WhiteLoops(loop, d, s) ==
    IF loop = "white" THEN WhiteBody(d, s) ELSE [s EXCEPT !.c = Next(d, s.c)]

\* readString: the loop over the bytes and the loop over the hex digits.
StringLoops(loop, d, s) ==
    IF loop = "readString" THEN StringBody(d, s) ELSE HexBody(d, s)

\* readMLString: the loops of the function and of its closure skipIndent.
MLStringLoops(loop, d, s) ==
    CASE loop = "readMLString.indent" -> IndentBody(d, s)
      [] loop = "readMLString.white" -> [s EXCEPT !.c = Next(d, s.c)]
      [] loop = "readMLString.skipIndent" ->
           [s EXCEPT !.c = Next(d, s.c), !.n = s.n - 1]
      [] loop = "readMLString" -> MLBody(d, s)
      [] loop = "readMLString.quotes" ->
           [s EXCEPT !.acc = Append(s.acc, B.sq), !.n = s.n - 1, !.flag = FALSE]

\* The state behind a loop whose condition fails: the p.next() that is the
\* condition of the loop of readString has set ch to 0.
LoopLeft(loop, d, s) ==
    IF loop = "readString" THEN [s EXCEPT !.c = Next(d, s.c)] ELSE s

\* readMLString: the main loop has read one or two quotes that do not end
\* the string.
RECURSIVE MLQuotesEntry(_, _)
MLQuotesEntry(d, s) ==
    IF s.c.ch = B.sq /\ s.n < 2 THEN MLQuotesEntry(d, MLBody(d, s)) ELSE s

\* The states in which decoding d enters the loop first.
LoopEntry(loop, d) ==
    LET c0 == White(d, ResetAt)
        c1 == SkipSpace(d, ResetAt)
        at0 == LoopState(ResetAt, 0, 0, <<>>, FALSE)
        inML == OpensML(d) /\ FallsBack(d)
        q == MLQuotesEntry(d, MLMainEntry(d))
    IN
    CASE loop \in {"white", "white.space"} -> {at0}
      [] loop = "white.line" ->
           IF c1.ch = B.hash \/ (c1.ch = B.slash /\ Peek(d, c1, 0) = B.slash)
           THEN {[at0 EXCEPT !.c = c1]} ELSE {}
      [] loop = "white.block" ->
           IF c1.ch = B.slash /\ Peek(d, c1, 0) = B.star
           THEN {[at0 EXCEPT !.c = Next(d, Next(d, c1))]} ELSE {}
      [] loop = "readString" ->
           IF c0.ch \in {B.dq, B.sq}
           THEN {LoopState(c0, 0, c0.ch, <<>>, FALSE)}
                  \cup (IF FallsBack(d) THEN {LoopState(c0, 0, c0.ch, <<>>, TRUE)}
                        ELSE {})
           ELSE {}
      [] loop = "readString.hex" ->
           IF c0.ch \in {B.dq, B.sq} /\ Next(d, c0).ch = B.bslash
                /\ Next(d, Next(d, c0)).ch = B.u
           THEN {[at0 EXCEPT !.c = Next(d, Next(d, c0))]} ELSE {}
      [] loop \in {"readMLString.indent", "readMLString.white"} ->
           IF inML THEN {[at0 EXCEPT !.c = MLStart(d)]} ELSE {}
      [] loop = "readMLString.skipIndent" ->
           IF inML /\ SkipToNewline(d, MLStart(d)).ch = B.lf
           THEN {LoopState(Next(d, SkipToNewline(d, MLStart(d))),
                           MLIndent(d, MLStart(d), 0), 0, <<>>, FALSE)}
           ELSE {}
      [] loop = "readMLString" -> IF inML THEN {MLMainEntry(d)} ELSE {}
      [] loop = "readMLString.quotes" ->
           IF inML /\ q.n > 0 /\ q.c.ch \notin {0, B.sq} THEN {q} ELSE {}
      [] loop = "readKeyname" ->
           IF c0.ch > 0 /\ c0.ch \notin {B.lbrace, B.lbrack, B.dq, B.sq}
           THEN {LoopState(c0, -1, c0.at, <<>>, FALSE)} ELSE {}
      [] loop = "readTfnns" ->
           IF FallsBack(d) /\ c0.ch \notin {B.dq, B.sq} /\ ~IsPunctuatorChar(c0.ch)
           THEN {LoopState(c0, 0, c0.ch, <<c0.ch>>, FALSE)} ELSE {}
      [] loop = "readArray" ->
           IF c0.ch = B.lbrack /\ White(d, Next(d, c0)).ch # B.rbrack
           THEN {[at0 EXCEPT !.c = White(d, Next(d, c0))]} ELSE {}
      [] loop = "readObject" ->
           IF c0.ch = B.lbrace
           THEN IF White(d, Next(d, c0)).ch # B.rbrace
                THEN {[at0 EXCEPT !.c = White(d, Next(d, c0))]} ELSE {}
           ELSE IF c0.ch = B.lbrack THEN {}
           ELSE {LoopState(c0, 0, 0, <<>>, TRUE)}

LoopInit ==
    /\ om = NewOrderedMap /\ input = 0
    /\ doc = <<>> /\ mode = "none" /\ last = NoCall
    /\ phase = "start"
    /\ r1 = Idle /\ enc = Idle /\ r2 = Idle

\* Unmarshal is called on a buffer and comes to one of the loops.
LoopBegin ==
    /\ phase = "start"
    /\ doc' \in LoopTexts
    /\ mode' \in LoopNames
    /\ last' \in LoopEntry(mode', doc')
    /\ phase' = IF LoopTest(mode', doc', last') THEN "looping" ELSE "left"
    /\ UNCHANGED <<om, input, r1, enc, r2>>

\* The loop goes on behind the state s that a body has left.
GoesOn(loop, d, s) == ~s.ret /\ LoopTest(loop, d, s)

\* The test of the condition that follows the body of a loop, which has
\* left the state s2; input counts the iterations.
Iteration(s2) ==
    /\ phase = "looping"
    /\ last' = IF s2.ret \/ GoesOn(mode, doc, s2) THEN s2
               ELSE LoopLeft(mode, doc, s2)
    /\ phase' = IF GoesOn(mode, doc, s2) THEN "looping" ELSE "left"
    /\ input' = input + 1
    /\ UNCHANGED <<om, doc, mode, r1, enc, r2>>

WhiteStep ==
    /\ mode \in {"white", "white.space", "white.line", "white.block"}
    /\ \E s2 \in {WhiteLoops(mode, doc, last)} : Iteration(s2)

StringStep ==
    /\ mode \in {"readString", "readString.hex"}
    /\ \E s2 \in {StringLoops(mode, doc, last)} : Iteration(s2)

MLStringStep ==
    /\ mode \in {"readMLString.indent", "readMLString.white",
                 "readMLString.skipIndent", "readMLString", "readMLString.quotes"}
    /\ \E s2 \in {MLStringLoops(mode, doc, last)} : Iteration(s2)

KeynameStep ==
    /\ mode = "readKeyname"
    /\ \E s2 \in {KeynameBody(doc, last)} : Iteration(s2)

TfnnsStep ==
    /\ mode = "readTfnns"
    /\ \E s2 \in {TfnnsBody(doc, last)} : Iteration(s2)

ArrayStep ==
    /\ mode = "readArray"
    /\ \E s2 \in {ArrayBody(doc, last)} : Iteration(s2)

ObjectStep ==
    /\ mode = "readObject"
    /\ \E s2 \in {ObjectBody(doc, last)} : Iteration(s2)

\* The whole document is decoded.
LoopDecode ==
    /\ phase = "left"
    /\ r1' = Unmarshal(doc, "iface")
    /\ phase' = "done"
    /\ UNCHANGED <<om, last, input, doc, mode, enc, r2>>

LoopNext ==
    \/ LoopBegin
    \/ WhiteStep \/ StringStep \/ MLStringStep \/ KeynameStep \/ TfnnsStep
    \/ ArrayStep \/ ObjectStep \/ LoopDecode

SpecLoop == LoopInit /\ [][LoopNext]_vars

\* Where the loop of the recursive definitions ends, for the loops that have
\* one.
LoopEnd(loop, d, s) ==
    CASE loop = "white" -> White(d, s.c)
      [] loop = "white.space" -> SkipSpace(d, s.c)
      [] loop = "white.line" -> SkipLine(d, s.c)
      [] loop = "white.block" -> SkipBlock(d, s.c)
      [] loop = "readString" -> StringLoop(d, s.c, s.k, s.flag, s.acc).c
      [] loop = "readString.hex" -> ReadHex4(d, s.c, s.n, s.k).c
      [] loop = "readMLString.white" -> SkipToNewline(d, s.c)
      [] loop = "readMLString.skipIndent" -> SkipIndent(d, s.c, s.n)
      [] loop = "readMLString" -> MLLoop(d, s.c, s.k, s.acc, s.n, s.flag).c
      [] loop = "readKeyname" -> KeynameLoop(d, s.c, s.k, s.acc, s.n).c
      [] loop = "readTfnns" -> TfnnsLoop(d, s.c, RootOpt, s.k, s.acc).c
      [] loop = "readArray" -> ArrayLoop(d, s.c, RootOpt, <<>>).c
      [] loop = "readObject" -> ObjectLoop(d, s.c, RootOpt, s.flag, NewOrderedMap).c
      [] OTHER -> s.c

\* Every iteration keeps the end the recursive definition of the loop gives,
\* and the loop is left there.
LoopEndsAsRead ==
    [][phase = "looping" =>
          /\ phase' = "looping" => LoopEnd(mode, doc, last') = LoopEnd(mode, doc, last)
          /\ phase' = "left" => last'.c = LoopEnd(mode, doc, last)]_vars


\* The cursor has moved on: to a later byte, or from the last byte to the end
\* mark, ch = 0, with which next answers at the end of the input.
MovedOn(c, c2) == c2.at > c.at \/ (c.ch # 0 /\ c2.ch = 0 /\ c2.at = c.at)

\* A counting loop has counted: the indent loop looks one byte further back,
\* inside the buffer; the quotes loop has one quote less to write.
Counted(loop, s, s2) ==
    /\ s2.c = s.c
    /\ IF loop = "readMLString.indent"
       THEN s2.n = s.n + 1 /\ s.c.at - s.n - 5 >= 0
       ELSE s2.n = s.n - 1 /\ s2.n >= 0

\* No loop runs more often than the buffer has bytes, and once more for the
\* end of the input.
IterationsBounded == input <= Len(doc) + 1

\* Decoding has ended with a value or with an error.
DecodeEnded == phase = "done" => r1.ok \/ r1.msg # ""

CursorInBuffer == phase # "start" => last.c.at \in 0..Len(doc)

(* C29: for every finite input decode terminates with a value or an error;   *)
(* every iteration of the loops in white, readString, readMLString,           *)
(* readKeyname, readTfnns, readArray and readObject advances the cursor       *)
(* offset or leaves the loop, and the offset stays within 0..len(data).       *)
C29_EveryIterationAdvances ==
    /\ [](IterationsBounded /\ DecodeEnded /\ CursorInBuffer)
    /\ [][phase = "looping" => last'.c.at > last.c.at \/ phase' = "left"]_vars

(* C29, amended: decode terminates with a value or an error and the offset    *)
(* stays within 0..len(data); every iteration of a loop that reads leaves the *)
(* loop, or moves the cursor to a later byte or from the last byte to the end *)
(* mark ch = 0, so that no loop runs more than len(data) + 1 times; the two   *)
(* loops of readMLString that only count leave the cursor where it is and     *)
(* count towards their end.                                                   *)
C29_LoopsReadOnOrEnd ==
    /\ [](IterationsBounded /\ DecodeEnded /\ CursorInBuffer)
    /\ [][phase = "looping" =>
            \/ phase' = "left"
            \/ IF mode \in CountingLoops THEN Counted(mode, last, last')
               ELSE MovedOn(last.c, last'.c)]_vars

\* readMLString has read an indented text to the end of the input without
\* finding the closing quotes, and the document is refused.
C29_Witness ==
    /\ phase = "done" /\ mode = "readMLString"
    /\ last.k = 1
    /\ last.ret /\ last.c = [at |-> Len(doc), ch |-> 0]
    /\ Len(last.acc) > 1
    /\ ~r1.ok


-----------------------------------------------------------------------------
(* errAt: the line, the column and the sample of a syntax error.  Offsets    *)
(* are those of the code, from 0; data[i] is d[i + 1].                       *)

MaxErrLen == 4

ErrAlphabet == {B.lf, B.sp, B.x, B.colon, B.lbrack, B.dq, B.rbrace}

\* Documents with more than 20 bytes behind the start of the line of the
\* error, and with fewer.
ErrLong ==
    {<<B.lbrack, B.colon>> \o [i \in 1..24 |-> B.x],
     <<B.lf, B.lbrack, B.lf, B.sp, B.colon>> \o [i \in 1..18 |-> B.x],
     [i \in 1..21 |-> B.x] \o <<B.lf, B.x, B.rbrace>>}

ErrTexts == UNION {[1..n -> ErrAlphabet] : n \in 0..MaxErrLen} \cup ErrLong

SampleLen == 20

\* errAt: the first loop, back from i to the newline in front of the cursor;
\* reads holds the offsets at which data is read (a read at an offset from
\* len(data) on would panic and ends the scan here).
RECURSIVE ColumnScan(_, _, _, _)
ColumnScan(d, i, col, reads) ==
    IF i > 0
    THEN IF i < Len(d) /\ d[i + 1] # B.lf
         THEN ColumnScan(d, i - 1, col + 1, reads \cup {i})
         ELSE [i |-> i, col |-> col, reads |-> reads \cup {i}]
    ELSE [i |-> i, col |-> col, reads |-> reads]

\* errAt: the second loop, from i back, counts the newlines.
RECURSIVE LineScan(_, _, _, _)
LineScan(d, i, line, reads) ==
    IF i > 0
    THEN LineScan(d, i - 1,
                  IF i < Len(d) /\ d[i + 1] = B.lf THEN line + 1 ELSE line,
                  reads \cup {i})
    ELSE [line |-> line, reads |-> reads]

\* hjsonParser.errAt with p.at = at: line, col, the sample data[from:to], the
\* offsets read, and fault when the slice expression is out of range.
ErrAt(d, at) ==
    LET cs == ColumnScan(d, at - 1, 0, {})
        ls == LineScan(d, cs.i, 1, cs.reads)
        samEnd == IF at - cs.col + SampleLen > Len(d) THEN Len(d)
                  ELSE at - cs.col + SampleLen
    IN [op |-> "errAt", at |-> at, line |-> ls.line, col |-> cs.col,
        from |-> at - cs.col, to |-> samEnd, reads |-> ls.reads,
        fault |-> ~(0 <= at - cs.col /\ at - cs.col <= samEnd)]

ErrInit ==
    /\ om = NewOrderedMap /\ last = NoCall
    /\ input = Idle
    /\ doc \in ErrTexts
    /\ mode = "errAt" /\ phase = "start"
    /\ r1 = Idle /\ enc = Idle /\ r2 = Idle

\* The document is parsed; errAt is called where the parser gives up.
ErrDecode ==
    /\ phase = "start"
    /\ r1' = RootValue(doc, RootOpt)
    /\ last' = IF r1'.ok THEN NoCall ELSE ErrAt(doc, r1'.c.at)
    /\ phase' = "decoded"
    /\ UNCHANGED <<om, input, doc, mode, enc, r2>>

ErrNext == ErrDecode

SpecErr == ErrInit /\ [][ErrNext]_vars

\* The offsets of the newlines among the first n bytes, from offset first on.
NewlinesBefore(d, first, n) == {i \in first..(n - 1) : d[i + 1] = B.lf}

\* The offset behind the last of them, or the start of the buffer.
MaxOf(S) == CHOOSE x \in S : \A y \in S : y <= x

LineStart(d, first, n) ==
    IF NewlinesBefore(d, first, n) = {} THEN 0
    ELSE MaxOf(NewlinesBefore(d, first, n)) + 1

\* errAt reads data only inside the buffer and takes its sample from it.
ReadsInsideBuffer ==
    last.op = "errAt" =>
        /\ ~last.fault
        /\ last.reads \subseteq 0..(Len(doc) - 1)
        /\ 0 <= last.from /\ last.from <= last.to /\ last.to <= Len(doc)

(* C30: every syntax error reports the 1-based line and the 1-based column of *)
(* the cursor position: the line is one plus the number of newline bytes      *)
(* before that position, the column is counted from the last preceding        *)
(* newline or from the start of the buffer, so that the byte behind the       *)
(* newline and the first byte of the buffer have column 1; building the       *)
(* diagnostic never reads outside the buffer.                                 *)
C30_LineAndColumn ==
    last.op = "errAt" =>
        /\ last.line = 1 + Cardinality(NewlinesBefore(doc, 0, last.at))
        /\ last.col = last.at - LineStart(doc, 0, last.at)
        /\ last.reads \subseteq 0..(Len(doc) - 1)
        /\ ~last.fault

\* What errAt reports: it never looks at the first byte of the buffer, so a
\* newline there is not counted and a first line is taken to start at
\* offset 1.
LineAndColumnButFirstByte ==
    last.op = "errAt" =>
        /\ last.line = 1 + Cardinality(NewlinesBefore(doc, 1, last.at))
        /\ last.col = last.at - (IF NewlinesBefore(doc, 1, last.at) = {} THEN 1
                                 ELSE LineStart(doc, 1, last.at))
        /\ last.from = last.at - last.col
        /\ last.to = IF last.from + SampleLen > Len(doc) THEN Len(doc)
                     ELSE last.from + SampleLen

\* The claim holds of every error behind a first line that is not empty.
LineAndColumnBehindFirstLine ==
    last.op = "errAt" /\ NewlinesBefore(doc, 1, last.at) # {} /\ doc[1] # B.lf
        => C30_LineAndColumn

\* errAt is called at offsets from 1 to len(data).
ErrAtCalledInside == last.op = "errAt" => last.at \in 1..Len(doc)

\* An error on the second line of a document whose first byte is a newline.
ErrOnSecondLine ==
    /\ last.op = "errAt"
    /\ doc[1] = B.lf
    /\ last.at = 2

====
